---- MODULE Spec2Model ----
(***************************************************************************)
(* Model of the flight pricing service: the pricing core                   *)
(* (src/api/pricing_system.py) and the HTTP boundary (src/api/app.py).     *)
(*                                                                         *)
(* Representation.                                                         *)
(*  - Money is an integer number of tenths of a currency unit (TLC's      *)
(*    integers are 32 bits wide, and the products below must fit).        *)
(*  - Adjustment factors and weights are integers in hundredths            *)
(*    (0.15 is 15); a factor times a weight is in ten-thousandths.         *)
(*  - A Python dict is a function from its keys; d.get(k, dflt) is         *)
(*    Get(d, k, dflt).  An ordered dict whose key order matters (the       *)
(*    feature dict) is a sequence of <<key, value>> pairs.                 *)
(*  - A Python str that the code inspects character by character (dates,   *)
(*    fare codes) is a sequence of one-character strings.                  *)
(*  - A raised exception is an outcome [raised |-> "<ExceptionClass>"].    *)
(***************************************************************************)
EXTENDS Integers, Sequences, FiniteSets, TLC

VARIABLES
    model,        \* app.py global `model`    (None until the startup load)
    encoders,     \* app.py global `encoders` (None until the startup load)
    op,           \* name of the operation performed last
    args,         \* its arguments, as they were when it was called
    ret,          \* its outcome: a returned value or a raised exception
    market_data,  \* the caller's market_data dict object after the call
    calls         \* the predict_price invocations made by the operation

vars == <<model, encoders, op, args, ret, market_data, calls>>

\* Python None, as an object unequal to every dict, list and str.  An int-valued
\* entry that is None is modelled as the key being absent (the code reads such
\* entries with d.get(k) only, which gives None for both).
None == [None |-> TRUE]

(***************************************************************************)
(* Python built-ins                                                        *)
(***************************************************************************)
Get(d, k, dflt) == IF k \in DOMAIN d THEN d[k] ELSE dflt

Min(a, b) == IF a <= b THEN a ELSE b
Max(a, b) == IF a >= b THEN a ELSE b

RECURSIVE SumSeq(_)
SumSeq(s) == IF s = <<>> THEN 0 ELSE Head(s) + SumSeq(Tail(s))

\* np.clip(x, lo, hi) = minimum(maximum(x, lo), hi)
np_clip(x, lo, hi) == Min(Max(x, lo), hi)

\* round(num/den) for den > 0: nearest integer, ties to the even one
round(num, den) ==
    LET q == num \div den
        r == num % den
    IN  IF 2 * r < den THEN q
        ELSE IF 2 * r > den THEN q + 1
        ELSE IF q % 2 = 0 THEN q ELSE q + 1

Returned(v) == [raised |-> "none", value |-> v]
Raised(e)   == [raised |-> e]

(***************************************************************************)
(* Strings as character sequences                                          *)
(***************************************************************************)
LowerCase == << "a","b","c","d","e","f","g","h","i","j","k","l","m",
                "n","o","p","q","r","s","t","u","v","w","x","y","z" >>
UpperCase == << "A","B","C","D","E","F","G","H","I","J","K","L","M",
                "N","O","P","Q","R","S","T","U","V","W","X","Y","Z" >>
Digits    == << "0","1","2","3","4","5","6","7","8","9" >>

IsDigit(c) == \E i \in 1..Len(Digits) : Digits[i] = c
DigitVal(c) == (CHOOSE i \in 1..Len(Digits) : Digits[i] = c) - 1

\* str.upper(), one character
UpperChar(c) ==
    IF \E i \in 1..Len(LowerCase) : LowerCase[i] = c
    THEN UpperCase[CHOOSE i \in 1..Len(LowerCase) : LowerCase[i] = c]
    ELSE c

upper(s) == [i \in 1..Len(s) |-> UpperChar(s[i])]

\* `sub in s`
Contains(s, sub) ==
    \E i \in 1..(Len(s) - Len(sub) + 1) : SubSeq(s, i, i + Len(sub) - 1) = sub

\* s[::-1]
Reverse(s) == [i \in 1..Len(s) |-> s[Len(s) + 1 - i]]

AllDigits(s) == \A i \in 1..Len(s) : IsDigit(s[i])

\* int(s) of a string of decimal digits
RECURSIVE IntOfDigits(_)
IntOfDigits(s) ==
    IF s = <<>> THEN 0
    ELSE 10 * IntOfDigits(SubSeq(s, 1, Len(s) - 1)) + DigitVal(s[Len(s)])

IntOfBool(b) == IF b THEN 1 ELSE 0

(***************************************************************************)
(* datetime.strptime(s, '%Y-%m-%d') and date arithmetic                    *)
(***************************************************************************)
DashPositions(s) == {i \in 1..Len(s) : s[i] = "-"}

\* %m : 1[0-2] | 0[1-9] | [1-9]
MonthField(f) ==
    \/ Len(f) = 2 /\ f[1] = "1" /\ f[2] \in {"0", "1", "2"}
    \/ Len(f) = 2 /\ f[1] = "0" /\ IsDigit(f[2]) /\ f[2] # "0"
    \/ Len(f) = 1 /\ IsDigit(f[1]) /\ f[1] # "0"

\* %d : 3[01] | [12]\d | 0[1-9] | [1-9] | " "[1-9]
DayField(f) ==
    \/ Len(f) = 2 /\ f[1] = "3" /\ f[2] \in {"0", "1"}
    \/ Len(f) = 2 /\ f[1] \in {"1", "2"} /\ IsDigit(f[2])
    \/ Len(f) = 2 /\ f[1] \in {"0", " "} /\ IsDigit(f[2]) /\ f[2] # "0"
    \/ Len(f) = 1 /\ IsDigit(f[1]) /\ f[1] # "0"

IsLeap(y) == (y % 4 = 0) /\ ((y % 100 # 0) \/ (y % 400 = 0))

DaysInMonth(y, m) ==
    IF m = 2 THEN (IF IsLeap(y) THEN 29 ELSE 28)
    ELSE IF m \in {4, 6, 9, 11} THEN 30
    ELSE 31

\* the day field without its leading blank
DayDigits(df) == IF df[1] = " " THEN <<df[2]>> ELSE df

\* datetime(year, month, day) of the three matched fields
date_of_fields(yf, mf, df) ==
    IF /\ AllDigits(yf)
       /\ MonthField(mf)
       /\ DayField(df)
       /\ IntOfDigits(yf) >= 1
       /\ IntOfDigits(DayDigits(df)) <= DaysInMonth(IntOfDigits(yf), IntOfDigits(mf))
    THEN [ok |-> TRUE, year |-> IntOfDigits(yf),
          month |-> IntOfDigits(mf), day |-> IntOfDigits(DayDigits(df))]
    ELSE [ok |-> FALSE]

\* the match of (\d\d\d\d)-(month)-(day) against all of s, p2 the second dash
match_fields(s, p2) ==
    date_of_fields(SubSeq(s, 1, 4), SubSeq(s, 6, p2 - 1), SubSeq(s, p2 + 1, Len(s)))

\* [ok |-> FALSE] stands for the ValueError strptime raises
strptime(s) ==
    IF Cardinality(DashPositions(s)) = 2 /\ 5 \in DashPositions(s)
    THEN match_fields(s, CHOOSE i \in DashPositions(s) : i # 5)
    ELSE [ok |-> FALSE]

RECURSIVE DaysBeforeMonth(_, _)
DaysBeforeMonth(y, m) ==
    IF m = 1 THEN 0 ELSE DaysBeforeMonth(y, m - 1) + DaysInMonth(y, m - 1)

\* date.toordinal(): 0001-01-01 is day 1
toordinal(d) ==
    LET y == d.year - 1
    IN  y * 365 + (y \div 4) - (y \div 100) + (y \div 400)
        + DaysBeforeMonth(d.year, d.month) + d.day

\* date.weekday(): Monday is 0, Sunday is 6
weekday(d) == (toordinal(d) + 6) % 7

(***************************************************************************)
(* FEATURE_ORDER and ordered dicts                                         *)
(***************************************************************************)
FEATURE_ORDER ==
    << "DAYS_UNTIL_FLIGHT", "SEATS_REMAINING", "TOTAL_TRAVEL_DISTANCE",
       "TRAVEL_DURATION_MINUTES", "NUM_SEGMENTS", "AIRLINE_CODE",
       "ORIGIN_CITY", "DEST_CITY", "FLIGHT_YEAR", "FLIGHT_MONTH",
       "FLIGHT_DAY_OF_WEEK", "IS_WEEKEND", "IS_HOLIDAY",
       "IS_BASIC_ECONOMY", "IS_NON_STOP", "IS_REFUNDABLE",
       "cabin_category", "fare_rule_number", "passenger_type",
       "seasonality_proxy", "has_numeric_rule", "is_night_fare_proxy",
       "is_weekend_fare_proxy" >>

\* the keys of an ordered dict, in insertion order
Keys(od) == [i \in 1..Len(od) |-> od[i][1]]

HasKey(od, k) == \E i \in 1..Len(od) : od[i][1] = k

\* od[k]
Item(od, k) == od[CHOOSE i \in 1..Len(od) : od[i][1] = k][2]

\* od.get(k, dflt)
ItemOr(od, k, dflt) == IF HasKey(od, k) THEN Item(od, k) ELSE dflt

(***************************************************************************)
(* parse_fare_code                                                         *)
(***************************************************************************)
cabin_map(c) ==
    IF      c \in {"F", "A", "P"}           THEN 5
    ELSE IF c \in {"J", "C", "D", "I", "Z"} THEN 4
    ELSE IF c = "W"                         THEN 3
    ELSE IF c \in {"Y", "B", "M", "H"}      THEN 2
    ELSE 1

\* re.search(r'(\d+)', fc): the first maximal run of digits, <<>> when none
FirstDigitRun(fc) ==
    IF \E i \in 1..Len(fc) : IsDigit(fc[i])
    THEN LET first == CHOOSE i \in 1..Len(fc) :
                         IsDigit(fc[i]) /\ \A j \in 1..(i - 1) : ~IsDigit(fc[j])
             last  == CHOOSE k \in first..Len(fc) :
                         /\ \A j \in first..k : IsDigit(fc[j])
                         /\ (k = Len(fc) \/ ~IsDigit(fc[k + 1]))
         IN  SubSeq(fc, first, last)
    ELSE <<>>

default_fare_info ==
    [ cabin_category        |-> 1,
      fare_rule_number      |-> 0,
      passenger_type        |-> 0,
      seasonality_proxy     |-> 1,
      has_numeric_rule      |-> 0,
      is_night_fare_proxy   |-> 0,
      is_weekend_fare_proxy |-> 0 ]

\* date_is_weekend taking the "WE"/"WK" substring test whatever the date
date_is_weekend_from_code(parsed, from_code) == from_code

\* the weekend proxy: from the flight date when it parses, else from the code
date_is_weekend(parsed, from_code) ==
    IF parsed.ok
    THEN (IF weekday(parsed) >= 5 THEN 1 ELSE 0)
    ELSE from_code

code_is_weekend(fc) ==
    IF Contains(fc, <<"W", "E">>) \/ Contains(fc, <<"W", "K">>) THEN 1 ELSE 0

\* passenger_type with the infant test made before the child test
passenger_type_infant_first(fc) ==
    IF Contains(fc, <<"I", "N">>) \/ Contains(fc, <<"I", "N", "F">>) THEN 2
    ELSE IF Contains(fc, <<"C", "H">>) THEN 1
    ELSE 0

passenger_type(fc) ==
    IF Contains(fc, <<"C", "H">>) THEN 1
    ELSE IF Contains(fc, <<"I", "N">>) \/ Contains(fc, <<"I", "N", "F">>) THEN 2
    ELSE 0

\* seasonality_proxy without the 'LH' not in fc conditions
seasonality_proxy_ignoring_LH(fc) ==
    IF Contains(fc, <<"H">>) THEN 2
    ELSE IF Contains(fc, <<"L">>) THEN 0
    ELSE 1

seasonality_proxy(fc) ==
    IF Contains(fc, <<"H">>) /\ ~Contains(fc, <<"L", "H">>) THEN 2
    ELSE IF Contains(fc, <<"L">>) /\ ~Contains(fc, <<"L", "H">>) THEN 0
    ELSE 1

\* is_night testing `if dep_hour` instead of `if dep_hour is not None`
is_night_hour_truthy(fc, flight_data) ==
    IF "departureHour" \in DOMAIN flight_data /\ flight_data["departureHour"] # 0
    THEN (IF flight_data["departureHour"] < 6 \/ flight_data["departureHour"] >= 22
          THEN 1 ELSE 0)
    ELSE (IF Contains(fc, <<"N">>) THEN 1 ELSE 0)

\* a departureHour of None is an absent entry
is_night(fc, flight_data) ==
    IF "departureHour" \in DOMAIN flight_data
    THEN (IF flight_data["departureHour"] < 6 \/ flight_data["departureHour"] >= 22
          THEN 1 ELSE 0)
    ELSE (IF Contains(fc, <<"N">>) THEN 1 ELSE 0)

parse_upper_code(fc, flight_data) ==
    [ cabin_category        |-> cabin_map(fc[1]),
      fare_rule_number      |-> IntOfDigits(FirstDigitRun(fc)),
      passenger_type        |-> passenger_type(fc),
      seasonality_proxy     |-> seasonality_proxy(fc),
      has_numeric_rule      |-> IF FirstDigitRun(fc) # <<>> THEN 1 ELSE 0,
      is_night_fare_proxy   |-> is_night(fc, flight_data),
      is_weekend_fare_proxy |->
          IF Get(flight_data, "flightDate", <<>>) # <<>>
          THEN date_is_weekend(strptime(flight_data["flightDate"]), code_is_weekend(fc))
          ELSE code_is_weekend(fc) ]

\* parse_fare_code without the early return of the defaults: an empty code is
\* parsed like any other
parse_fare_code_no_early_return(fare_code, flight_data_arg) ==
    parse_upper_code(IF fare_code = None \/ fare_code = <<>>
                     THEN <<" ">>
                     ELSE upper(fare_code),
                     IF flight_data_arg = None THEN <<>> ELSE flight_data_arg)

\* `not fare_code`: None or the empty string
parse_fare_code(fare_code, flight_data_arg) ==
    IF fare_code = None \/ fare_code = <<>>
    THEN default_fare_info
    ELSE parse_upper_code(upper(fare_code),
                          IF flight_data_arg = None THEN <<>> ELSE flight_data_arg)

(***************************************************************************)
(* create_ml_features: the 23-entry feature dict, in insertion order, or   *)
(* the exception raised.  The three categorical entries are strings.       *)
(***************************************************************************)
DL  == <<"D", "L">>
JFK == <<"J", "F", "K">>
LAX == <<"L", "A", "X">>

\* the `features` dict literal
feature_dict(flight_data, days_until_flight, flight_date, flight_weekday, fare_info) ==
    << <<"DAYS_UNTIL_FLIGHT", days_until_flight>>,
       <<"SEATS_REMAINING", Get(flight_data, "seatsRemaining", 50)>>,
       <<"TOTAL_TRAVEL_DISTANCE", Get(flight_data, "totalTravelDistance", 1000)>>,
       <<"TRAVEL_DURATION_MINUTES", Get(flight_data, "durationMinutes", 180)>>,
       <<"NUM_SEGMENTS", Get(flight_data, "numSegments", 1)>>,
       <<"AIRLINE_CODE", Get(flight_data, "airlineCode", Get(flight_data, "carrier", DL))>>,
       <<"ORIGIN_CITY", Get(flight_data, "originCity", Get(flight_data, "startingAirport", JFK))>>,
       <<"DEST_CITY", Get(flight_data, "destCity", Get(flight_data, "destinationAirport", LAX))>>,
       <<"FLIGHT_YEAR", flight_date.year>>,
       <<"FLIGHT_MONTH", flight_date.month>>,
       <<"FLIGHT_DAY_OF_WEEK", flight_weekday>>,
       <<"IS_WEEKEND", IF flight_weekday >= 5 THEN 1 ELSE 0>>,
       <<"IS_HOLIDAY", Get(flight_data, "IS_HOLIDAY", 0)>>,
       <<"IS_BASIC_ECONOMY", IntOfBool(Get(flight_data, "isBasicEconomy", FALSE))>>,
       <<"IS_NON_STOP", IntOfBool(Get(flight_data, "isNonStop", TRUE))>>,
       <<"IS_REFUNDABLE", IntOfBool(Get(flight_data, "isRefundable", FALSE))>>,
       <<"cabin_category", fare_info.cabin_category>>,
       <<"fare_rule_number", fare_info.fare_rule_number>>,
       <<"passenger_type", fare_info.passenger_type>>,
       <<"seasonality_proxy", fare_info.seasonality_proxy>>,
       <<"has_numeric_rule", fare_info.has_numeric_rule>>,
       <<"is_night_fare_proxy", fare_info.is_night_fare_proxy>>,
       <<"is_weekend_fare_proxy", fare_info.is_weekend_fare_proxy>> >>

\* features_of_dates without the max(0, ...) around the difference in days
features_of_dates_unclamped(flight_data, search_date, flight_date) ==
    IF ~search_date.ok \/ ~flight_date.ok
    THEN Raised("ValueError")
    ELSE Returned(feature_dict(
           flight_data,
           toordinal(flight_date) - toordinal(search_date),
           flight_date,
           weekday(flight_date),
           parse_fare_code(Get(flight_data, "fareBasisCode", <<>>), flight_data)))

\* create_ml_features once both dates went through strptime
features_of_dates(flight_data, search_date, flight_date) ==
    IF ~search_date.ok \/ ~flight_date.ok
    THEN Raised("ValueError")
    ELSE Returned(feature_dict(
           flight_data,
           Max(0, toordinal(flight_date) - toordinal(search_date)),
           flight_date,
           weekday(flight_date),
           parse_fare_code(Get(flight_data, "fareBasisCode", <<>>), flight_data)))

\* create_ml_features reading every entry with flight_data[...] instead of .get
create_ml_features_no_defaults(flight_data) ==
    IF {"searchDate", "flightDate", "seatsRemaining", "totalTravelDistance",
        "durationMinutes", "numSegments", "airlineCode", "originCity", "destCity"}
         \subseteq DOMAIN flight_data
    THEN features_of_dates(flight_data, strptime(flight_data["searchDate"]),
                           strptime(flight_data["flightDate"]))
    ELSE Raised("KeyError")

create_ml_features(flight_data) ==
    IF "searchDate" \notin DOMAIN flight_data THEN Raised("KeyError")
    ELSE IF ~strptime(flight_data["searchDate"]).ok THEN Raised("ValueError")
    ELSE IF "flightDate" \notin DOMAIN flight_data THEN Raised("KeyError")
    ELSE features_of_dates(flight_data, strptime(flight_data["searchDate"]),
                           strptime(flight_data["flightDate"]))

(***************************************************************************)
(* get_ml_prediction.  A loaded encoders object maps a column to the       *)
(* sorted classes_ of its LabelEncoder; transform gives the 0-based index  *)
(* of a known value and raises on an unknown one.  A loaded model is a     *)
(* stub regressor over the 23-element vector: base + slope * vector[17]    *)
(* (tenths).                                                               *)
(***************************************************************************)
string_categorical_cols == {"AIRLINE_CODE", "ORIGIN_CITY", "DEST_CITY"}

Known(classes, val) == \E i \in 1..Len(classes) : classes[i] = val

transform(classes, val) == (CHOOSE i \in 1..Len(classes) : classes[i] = val) - 1

\* float(v) of a str inside try/except: the number it spells, 0.0 when float() raises
FloatOfStr(v) == IF v # <<>> /\ AllDigits(v) THEN IntOfDigits(v) ELSE 0

\* encoded_features[f] as the float appended to feature_values
EncodedValue(encs, features, f) ==
    IF ~HasKey(features, f) THEN 0
    ELSE IF f \in string_categorical_cols
         THEN IF f \in DOMAIN encs
              THEN (IF Known(encs[f], Item(features, f))
                    THEN transform(encs[f], Item(features, f))
                    ELSE 0)
              ELSE FloatOfStr(Item(features, f))
         ELSE Item(features, f)

\* feature_values filled in the reverse of FEATURE_ORDER
feature_values_reversed(encs, features) ==
    [i \in 1..Len(FEATURE_ORDER) |->
        EncodedValue(encs, features, FEATURE_ORDER[Len(FEATURE_ORDER) + 1 - i])]

feature_values(encs, features) ==
    [i \in 1..Len(FEATURE_ORDER) |-> EncodedValue(encs, features, FEATURE_ORDER[i])]

model_predict(mdl, vector) == mdl.base + mdl.slope * vector[17]

get_ml_prediction(mdl, encs, features) ==
    IF encs = None THEN Raised("TypeError")
    ELSE IF mdl = None THEN Raised("AttributeError")
    ELSE Returned(model_predict(mdl, feature_values(encs, features)))

(***************************************************************************)
(* PRICING_CONFIG, in hundredths                                           *)
(***************************************************************************)
\* PRICING_CONFIG with the five weights made equal
PRICING_CONFIG_equal_weights ==
    [ demand_weight      |-> 20,
      competition_weight |-> 20,
      inventory_weight   |-> 20,
      time_weight        |-> 20,
      seasonality_weight |-> 20 ]

PRICING_CONFIG ==
    [ demand_weight      |-> 30,
      competition_weight |-> 25,
      inventory_weight   |-> 20,
      time_weight        |-> 15,
      seasonality_weight |-> 10 ]

(***************************************************************************)
(* DYNAMIC PRICING FACTORS (hundredths)                                    *)
(***************************************************************************)
\* calculate_demand_factor with the booking-window bonus granted to every flight
calculate_demand_factor_window_always(context) ==
    LET weekend_bonus == IF Get(context, "is_weekend", 0) = 1 THEN 10 ELSE 0
        flight_month == Get(context, "flight_month", 6)
        month_bonus == IF flight_month \in {6, 7, 8} THEN 15
                       ELSE IF flight_month \in {12, 1} THEN 15
                       ELSE 0
        flight_weekday == Get(context, "flight_weekday", 3)
        weekday_bonus == IF flight_weekday \in {5, 6} THEN 10 ELSE 0
        demand_score == weekend_bonus + month_bonus + weekday_bonus + 10
    IN  np_clip(demand_score, -20, 50)

calculate_demand_factor(context) ==
    LET weekend_bonus == IF Get(context, "is_weekend", 0) = 1 THEN 10 ELSE 0
        flight_month == Get(context, "flight_month", 6)
        month_bonus == IF flight_month \in {6, 7, 8} THEN 15
                       ELSE IF flight_month \in {12, 1} THEN 15
                       ELSE 0
        flight_weekday == Get(context, "flight_weekday", 3)
        weekday_bonus == IF flight_weekday \in {5, 6} THEN 10 ELSE 0
        days_until == Get(context, "days_until_flight", 30)
        window_bonus == IF 7 <= days_until /\ days_until <= 21 THEN 10 ELSE 0
        demand_score == weekend_bonus + month_bonus + weekday_bonus + window_bonus
    IN  np_clip(demand_score, -20, 50)

\* seats_remaining_pct computed as the fill rate, the share of seats taken
seats_remaining_pct_as_fill_rate(context) ==
    LET seats_remaining == Get(context, "seats_remaining", 50)
        total_seats == Get(context, "total_seats", 180)
    IN  IF total_seats > 0
        THEN [num |-> (total_seats - seats_remaining) * 100, den |-> total_seats]
        ELSE [num |-> 50, den |-> 1]

\* seats_remaining_pct as a fraction num/den with den > 0
seats_remaining_pct(context) ==
    LET seats_remaining == Get(context, "seats_remaining", 50)
        total_seats == Get(context, "total_seats", 180)
    IN  IF total_seats > 0
        THEN [num |-> seats_remaining * 100, den |-> total_seats]
        ELSE [num |-> 50, den |-> 1]

\* calculate_inventory_factor with the largest surplus charged instead of discounted
calculate_inventory_factor_surplus_charged(context) ==
    LET p == seats_remaining_pct(context)
    IN  IF      p.num <= 2  * p.den THEN 50
        ELSE IF p.num <= 5  * p.den THEN 40
        ELSE IF p.num <= 10 * p.den THEN 25
        ELSE IF p.num <= 15 * p.den THEN 15
        ELSE IF p.num >= 60 * p.den THEN 25
        ELSE IF p.num >= 50 * p.den THEN -15
        ELSE IF p.num >= 40 * p.den THEN -10
        ELSE 0

calculate_inventory_factor(context) ==
    LET p == seats_remaining_pct(context)
    IN  IF      p.num <= 2  * p.den THEN 50
        ELSE IF p.num <= 5  * p.den THEN 40
        ELSE IF p.num <= 10 * p.den THEN 25
        ELSE IF p.num <= 15 * p.den THEN 15
        ELSE IF p.num >= 60 * p.den THEN -25
        ELSE IF p.num >= 50 * p.den THEN -15
        ELSE IF p.num >= 40 * p.den THEN -10
        ELSE 0

\* calculate_time_factor with early bookings charged instead of discounted
calculate_time_factor_early_charged(context) ==
    LET days_until_flight == Get(context, "days_until_flight", 30)
    IN  IF      days_until_flight <= 1  THEN 50
        ELSE IF days_until_flight <= 3  THEN 30
        ELSE IF days_until_flight <= 7  THEN 20
        ELSE IF days_until_flight <= 14 THEN 10
        ELSE IF days_until_flight >= 60 THEN 10
        ELSE 0

calculate_time_factor(context) ==
    LET days_until_flight == Get(context, "days_until_flight", 30)
    IN  IF      days_until_flight <= 1  THEN 50
        ELSE IF days_until_flight <= 3  THEN 30
        ELSE IF days_until_flight <= 7  THEN 20
        ELSE IF days_until_flight <= 14 THEN 10
        ELSE IF days_until_flight >= 60 THEN -10
        ELSE 0

\* RatioGt with the threshold itself counted as above it
RatioGt_or_equal(num, den, t) ==
    IF den > 0 THEN 100 * num >= t * den
    ELSE IF den < 0 THEN 100 * num <= t * den
    ELSE num > 0

\* num/den > t/100 in IEEE arithmetic: num/0 is +inf or -inf (num # 0 here)
RatioGt(num, den, t) ==
    IF den > 0 THEN 100 * num > t * den
    ELSE IF den < 0 THEN 100 * num < t * den
    ELSE num > 0

RatioLt(num, den, t) ==
    IF den > 0 THEN 100 * num < t * den
    ELSE IF den < 0 THEN 100 * num > t * den
    ELSE num < 0

calculate_competition_factor(context) ==
    LET competitor_prices == Get(context, "competitor_prices", <<>>)
        our_price == Get(context, "current_price", Get(context, "ml_prediction", 0))
        n == Len(competitor_prices)
        \* price_diff_pct = (our_price - avg) / avg with avg = sum / n
        num == our_price * n - SumSeq(competitor_prices)
        den == SumSeq(competitor_prices)
    IN  IF competitor_prices = <<>> THEN 0
        ELSE IF our_price = 0 THEN 0
        ELSE IF RatioGt(num, den, 15)  THEN -20
        ELSE IF RatioGt(num, den, 10)  THEN -15
        ELSE IF RatioGt(num, den, 5)   THEN -8
        ELSE IF RatioLt(num, den, -10) THEN 10
        ELSE IF RatioLt(num, den, -5)  THEN 5
        ELSE 0

season_map ==
    [ peak_summer |-> 20,
      peak_winter |-> 15,
      shoulder    |-> 5,
      standard    |-> 0,
      off_season  |-> -10 ]

calculate_seasonality_factor(context) ==
    Get(season_map, Get(context, "season", "standard"), 0)

(***************************************************************************)
(* calculate_dynamic_price.  ml_prediction is a Python float (predict_price *)
(* passes float(prediction[0])), so dividing by a zero ml_prediction       *)
(* raises ZeroDivisionError.  final_price is a whole number of currency    *)
(* units, recorded here in tenths like every other amount;                 *)
(* total_adjustment is the fraction num/den.  The formatted strings of     *)
(* 'factors_applied' are the 'adjustments' printed with one decimal.       *)
(***************************************************************************)
\* weighted_total with every factor counted in full, the weights ignored
weighted_total_unweighted(context, config) ==
    100 * ( calculate_demand_factor(context)
          + calculate_competition_factor(context)
          + calculate_inventory_factor(context)
          + calculate_time_factor(context)
          + calculate_seasonality_factor(context) )

weighted_total(context, config) ==
      calculate_demand_factor(context)      * config.demand_weight
    + calculate_competition_factor(context) * config.competition_weight
    + calculate_inventory_factor(context)   * config.inventory_weight
    + calculate_time_factor(context)        * config.time_weight
    + calculate_seasonality_factor(context) * config.seasonality_weight

\* clipped_price with the safety bounds left out
clipped_price_unbounded(ml_prediction, total_adjustment) ==
    ml_prediction * (10000 + total_adjustment)

\* np.clip(adjusted_price, min_price, max_price), in 1/10000 of a tenth
clipped_price(ml_prediction, total_adjustment) ==
    LET adjusted_price == ml_prediction * (10000 + total_adjustment)
        min_price == ml_prediction * 7000
        max_price == ml_prediction * 15000
    IN  np_clip(adjusted_price, min_price, max_price)

\* The signs a binary floating-point error can have.  total_adjustment,
\* 1 + total_adjustment and their product with ml_prediction are computed in
\* IEEE doubles (0.15, 0.25, 0.7 ... have no exact binary form), so the value
\* handed to round() lies a few ulps below, on, or above the exact product.
FpErrors == {-1, 0, 1}

\* round(x) of the double nearest to num/den with an error of sign fp_error.
\* A few ulps change the result only when the exact value is halfway between
\* two integers: below the half round() goes down, above it goes up, and on
\* the half itself it goes to the even neighbour.
round_float(num, den, fp_error) ==
    IF 2 * (num % den) # den \/ fp_error = 0
    THEN round(num, den)
    ELSE IF fp_error < 0 THEN num \div den ELSE (num \div den) + 1

\* final_price = round(np.clip(adjusted_price, min_price, max_price)).
\* max_price = ml_prediction * 1.5 is exact in binary floating point, so the
\* error touches adjusted_price and min_price only.
final_price_of(ml_prediction, total_adjustment, fp_error) ==
    10 * round_float(clipped_price(ml_prediction, total_adjustment), 100000,
                     IF clipped_price(ml_prediction, total_adjustment)
                          = ml_prediction * 15000
                     THEN 0 ELSE fp_error)

\* dynamic_result reporting the weighted sum before clipping and rounding
dynamic_result_weighted_sum(ml_prediction, context, final_price) ==
    IF ml_prediction = 0
    THEN Raised("ZeroDivisionError")
    ELSE Returned(
           [ final_price      |-> final_price,
             ml_prediction    |-> ml_prediction,
             total_adjustment |-> [ num |-> weighted_total(context, PRICING_CONFIG),
                                    den |-> 100 ],
             adjustments      |->
               [ demand      |-> calculate_demand_factor(context),
                 competition |-> calculate_competition_factor(context),
                 inventory   |-> calculate_inventory_factor(context),
                 time        |-> calculate_time_factor(context),
                 seasonality |-> calculate_seasonality_factor(context) ] ])

\* the dict calculate_dynamic_price returns
dynamic_result(ml_prediction, context, final_price) ==
    IF ml_prediction = 0
    THEN Raised("ZeroDivisionError")
    ELSE Returned(
           [ final_price      |-> final_price,
             ml_prediction    |-> ml_prediction,
             total_adjustment |-> [ num |-> (final_price - ml_prediction) * 100,
                                    den |-> ml_prediction ],
             adjustments      |->
               [ demand      |-> calculate_demand_factor(context),
                 competition |-> calculate_competition_factor(context),
                 inventory   |-> calculate_inventory_factor(context),
                 time        |-> calculate_time_factor(context),
                 seasonality |-> calculate_seasonality_factor(context) ] ])

\* fp_error is the sign of the floating-point error of this call's
\* adjusted_price (see round_float)
calculate_dynamic_price(ml_prediction, context, config_arg, fp_error) ==
    dynamic_result(
        ml_prediction, context,
        final_price_of(ml_prediction,
                       weighted_total(context, IF config_arg = None
                                               THEN PRICING_CONFIG
                                               ELSE config_arg),
                       fp_error))

(***************************************************************************)
(* create_pricing_context, calculate_confidence, predict_price             *)
(***************************************************************************)
\* `if market_data`: neither None nor an empty dict
Truthy(d) == d # None /\ DOMAIN d # {}

\* d[k] = v
SetItem(d, k, v) == [x \in (DOMAIN d) \cup {k} |-> IF x = k THEN v ELSE d[x]]

\* create_pricing_context copying a 'current_price' of market_data as well
create_pricing_context_with_current_price(ml_features, market_data_arg) ==
    LET copied ==
          [ seats_remaining     |-> Item(ml_features, "SEATS_REMAINING"),
            total_seats         |-> Get(market_data_arg, "total_seats", 180),
            days_until_flight   |-> Item(ml_features, "DAYS_UNTIL_FLIGHT"),
            flight_weekday      |-> Item(ml_features, "FLIGHT_DAY_OF_WEEK"),
            flight_month        |-> Item(ml_features, "FLIGHT_MONTH"),
            is_weekend          |-> Item(ml_features, "IS_WEEKEND"),
            seasonality_encoded |-> Item(ml_features, "seasonality_proxy"),
            competitor_prices   |-> Get(market_data_arg, "competitor_prices", <<>>),
            season              |-> Get(market_data_arg, "season", "standard"),
            ml_prediction       |-> Get(market_data_arg, "ml_prediction", 0) ]
    IN  IF "current_price" \in DOMAIN market_data_arg
        THEN SetItem(copied, "current_price", market_data_arg["current_price"])
        ELSE copied

create_pricing_context(ml_features, market_data_arg) ==
    LET base ==
          [ seats_remaining     |-> Item(ml_features, "SEATS_REMAINING"),
            total_seats         |-> IF Truthy(market_data_arg)
                                    THEN Get(market_data_arg, "total_seats", 180)
                                    ELSE 180,
            days_until_flight   |-> Item(ml_features, "DAYS_UNTIL_FLIGHT"),
            flight_weekday      |-> Item(ml_features, "FLIGHT_DAY_OF_WEEK"),
            flight_month        |-> Item(ml_features, "FLIGHT_MONTH"),
            is_weekend          |-> Item(ml_features, "IS_WEEKEND"),
            seasonality_encoded |-> Item(ml_features, "seasonality_proxy"),
            competitor_prices   |-> IF Truthy(market_data_arg)
                                    THEN Get(market_data_arg, "competitor_prices", <<>>)
                                    ELSE <<>>,
            season              |-> IF Truthy(market_data_arg)
                                    THEN Get(market_data_arg, "season", "standard")
                                    ELSE "standard" ]
    IN  IF Truthy(market_data_arg) /\ "ml_prediction" \in DOMAIN market_data_arg
        THEN SetItem(base, "ml_prediction", market_data_arg["ml_prediction"])
        ELSE base

popular_routes ==
    { <<"J","F","K","-","L","A","X">>,
      <<"L","A","X","-","J","F","K">>,
      <<"O","R","D","-","L","A","X">>,
      <<"J","F","K","-","S","F","O">>,
      <<"A","T","L","-","L","A","X">> }

confidence_score(features, ml_prediction) ==
    LET route == ItemOr(features, "ORIGIN_CITY", <<>>) \o <<"-">>
                 \o ItemOr(features, "DEST_CITY", <<>>)
        days == Item(features, "DAYS_UNTIL_FLIGHT")
        seats == Item(features, "SEATS_REMAINING")
    IN    (IF route \in popular_routes \/ Reverse(route) \in popular_routes
           THEN 2 ELSE 0)
        + (IF 7 <= days /\ days <= 60 THEN 2
           ELSE IF 3 <= days /\ days <= 90 THEN 1
           ELSE 0)
        + (IF 10 <= seats /\ seats <= 150 THEN 1 ELSE 0)
        + (IF 1000 <= ml_prediction /\ ml_prediction <= 15000 THEN 1 ELSE 0)

\* calculate_confidence answering High from a score of 3
calculate_confidence_high_at_3(features, ml_prediction) ==
    LET score == confidence_score(features, ml_prediction)
    IN  IF score >= 3 THEN "High"
        ELSE IF score >= 2 THEN "Medium"
        ELSE "Low"

calculate_confidence(features, ml_prediction) ==
    LET score == confidence_score(features, ml_prediction)
    IN  IF score >= 4 THEN "High"
        ELSE IF score >= 2 THEN "Medium"
        ELSE "Low"

\* market_data['ml_prediction'] = ml_prediction, on the caller's dict when one
\* was passed and on a fresh local dict when market_data is None
market_data_in_call(market_data_arg, ml_prediction) ==
    SetItem(IF market_data_arg = None THEN <<>> ELSE market_data_arg,
            "ml_prediction", ml_prediction)

\* the caller's market_data object once predict_price has stored into it
market_data_after(market_data_arg, ml_prediction) ==
    IF market_data_arg = None
    THEN None
    ELSE market_data_in_call(market_data_arg, ml_prediction)

\* the dict predict_price returns
price_result(ml_features, ml_prediction, priced) ==
    [ ml_base_price        |-> ml_prediction,
      dynamic_price        |-> priced.final_price,
      total_adjustment_pct |-> priced.total_adjustment,
      factors              |-> priced.adjustments,
      breakdown            |->
        [ base            |-> ml_prediction * 10000,
          demand_adj      |-> ml_prediction * priced.adjustments.demand
                              * PRICING_CONFIG.demand_weight,
          competition_adj |-> ml_prediction * priced.adjustments.competition
                              * PRICING_CONFIG.competition_weight,
          inventory_adj   |-> ml_prediction * priced.adjustments.inventory
                              * PRICING_CONFIG.inventory_weight,
          time_adj        |-> ml_prediction * priced.adjustments.time
                              * PRICING_CONFIG.time_weight,
          seasonality_adj |-> ml_prediction * priced.adjustments.seasonality
                              * PRICING_CONFIG.seasonality_weight ],
      confidence           |-> calculate_confidence(ml_features, ml_prediction),
      features_used        |-> ml_features ]

\* predict_price after calculate_dynamic_price
price_of_dynamic(market_data_arg, ml_features, ml_prediction, dynamic) ==
    [ out |-> IF dynamic.raised # "none"
              THEN dynamic
              ELSE Returned(price_result(ml_features, ml_prediction, dynamic.value)),
      market_data |-> market_data_after(market_data_arg, ml_prediction) ]

\* predict_price after get_ml_prediction
price_of_prediction(market_data_arg, ml_features, prediction, fp_error) ==
    IF prediction.raised # "none"
    THEN [out |-> prediction, market_data |-> market_data_arg]
    ELSE price_of_dynamic(
           market_data_arg, ml_features, prediction.value,
           calculate_dynamic_price(
             prediction.value,
             create_pricing_context(
               ml_features, market_data_in_call(market_data_arg, prediction.value)),
             None, fp_error))

\* predict_price after create_ml_features
price_of_features(mdl, encs, market_data_arg, features, fp_error) ==
    IF features.raised # "none"
    THEN [out |-> features, market_data |-> market_data_arg]
    ELSE price_of_prediction(market_data_arg, features.value,
                             get_ml_prediction(mdl, encs, features.value),
                             fp_error)

\* predict_price: [out |-> the value returned or the exception raised,
\*                 market_data |-> the caller's market_data object afterwards].
\* The breakdown amounts are in 1/10000 of a tenth.  fp_error is the sign
\* of the floating-point error in the call's calculate_dynamic_price.
predict_price(mdl, encs, flight_data, market_data_arg, fp_error) ==
    price_of_features(mdl, encs, market_data_arg, create_ml_features(flight_data),
                      fp_error)

(***************************************************************************)
(* The HTTP boundary (app.py).  A FlightRequest is a record of its fields; *)
(* an Optional[int] field that is None is an absent field.  A pydantic     *)
(* object carries a `class` field, a plain dict does not.                  *)
(***************************************************************************)
HTTPException(status_code, detail) ==
    [raised |-> "HTTPException", status_code |-> status_code, detail |-> detail]

\* not_loaded with the readiness check left out
not_loaded_never(mdl, encs) == FALSE

\* `model is None or encoders is None`
not_loaded(mdl, encs) == mdl = None \/ encs = None

\* `x or dflt` for a str or a list
OrElse(x, dflt) == IF x = None \/ x = <<>> THEN dflt ELSE x

Y14 == <<"Y", "1", "4">>

WithOptional(d, request, field, key) ==
    IF field \in DOMAIN request THEN SetItem(d, key, request[field]) ELSE d

request_flight_data(request) ==
    LET required ==
          [ searchDate          |-> request.searchDate,
            flightDate          |-> request.flightDate,
            seatsRemaining      |-> request.seatsRemaining,
            totalTravelDistance |-> request.totalTravelDistance,
            durationMinutes     |-> request.durationMinutes,
            numSegments         |-> request.numSegments,
            isBasicEconomy      |-> request.isBasicEconomy,
            isNonStop           |-> request.isNonStop,
            isRefundable        |-> request.isRefundable,
            IS_HOLIDAY          |-> IF request.isHoliday THEN 1 ELSE 0,
            fareBasisCode       |-> OrElse(request.fareBasisCode, Y14),
            originCity          |-> request.startingAirport,
            destCity            |-> request.destinationAirport,
            airlineCode         |-> request.carrier ]
        with_hour == WithOptional(required, request, "departureHour", "departureHour")
        with_cabin == WithOptional(with_hour, request, "cabinCategory",
                                   "cabin_category_override")
    IN  WithOptional(with_cabin, request, "passengerType", "passenger_type_override")

request_market_data(request) ==
    [ competitor_prices |-> OrElse(request.competitor_prices, <<>>),
      total_seats       |-> IF Get(request, "total_seats", 0) = 0
                            THEN 180
                            ELSE request.total_seats ]

\* round(x, 2) of an amount in 1/10000 of a tenth, in hundredths of a unit
round2(x) == round(x, 1000)

\* the snapshot of the globals a predict_price invocation is made with
CoreCall(mdl, encs) == [model_loaded |-> mdl # None, encoders_loaded |-> encs # None]

PredictionResponse(request, result) ==
    [ class            |-> "PredictionResponse",
      success          |-> TRUE,
      ml_base_price    |-> result.ml_base_price,
      dynamic_price    |-> result.dynamic_price,
      \* round(total_adjustment_pct, 2), in hundredths of a percent
      total_adjustment |-> round(result.total_adjustment_pct.num * 100,
                                 result.total_adjustment_pct.den),
      confidence       |-> result.confidence,
      factors          |-> result.factors,
      breakdown        |-> [k \in DOMAIN result.breakdown |-> round2(result.breakdown[k])],
      route            |-> <<request.startingAirport, request.destinationAirport>>,
      flight_date      |-> request.flightDate,
      features_summary |->
        [ days_until_flight |-> ItemOr(result.features_used, "DAYS_UNTIL_FLIGHT", None),
          cabin_category    |-> ItemOr(result.features_used, "cabin_category", None),
          seasonality_proxy |-> ItemOr(result.features_used, "seasonality_proxy", None),
          is_weekend        |-> ItemOr(result.features_used, "IS_WEEKEND", None),
          is_holiday        |-> ItemOr(result.features_used, "IS_HOLIDAY", None) ] ]

\* predict_outcome with `except Exception` catching the ValueError too
predict_outcome_all_500(request, core_out) ==
    IF core_out.raised = "none"
    THEN Returned(PredictionResponse(request, core_out.value))
    ELSE HTTPException(500, "Prediction error")

\* the try block of predict around the predict_price call
predict_outcome(request, core_out) ==
    IF core_out.raised = "none"
    THEN Returned(PredictionResponse(request, core_out.value))
    ELSE IF core_out.raised = "ValueError"
    THEN HTTPException(400, "Invalid input")
    ELSE HTTPException(500, "Prediction error")

\* predict: [out |-> the PredictionResponse returned or the HTTPException raised,
\*           calls |-> the predict_price invocations made]
predict(mdl, encs, request, fp_error) ==
    IF not_loaded(mdl, encs)
    THEN [out |-> HTTPException(503, "Model not loaded"), calls |-> <<>>]
    ELSE [out |-> predict_outcome(
                    request,
                    predict_price(mdl, encs, request_flight_data(request),
                                  request_market_data(request), fp_error).out),
          calls |-> <<CoreCall(mdl, encs)>>]

IsDict(r) == "class" \notin DOMAIN r

\* what the loop of predict_batch appends for one request
batch_item(req, one) ==
    IF one.raised = "none"
    THEN one.value
    ELSE [ success |-> FALSE,
           error   |-> one.detail,
           route   |-> <<req.startingAirport, req.destinationAirport>> ]

\* the `results` list of predict_batch after the loop
RECURSIVE batch_results(_, _, _, _)
batch_results(mdl, encs, requests, fp_error) ==
    IF requests = <<>> THEN <<>>
    ELSE <<batch_item(Head(requests),
                      predict(mdl, encs, Head(requests), fp_error).out)>>
         \o batch_results(mdl, encs, Tail(requests), fp_error)

RECURSIVE batch_calls(_, _, _, _)
batch_calls(mdl, encs, requests, fp_error) ==
    IF requests = <<>> THEN <<>>
    ELSE predict(mdl, encs, Head(requests), fp_error).calls
         \o batch_calls(mdl, encs, Tail(requests), fp_error)

\* sum(1 for r in results if r.get("success", False)): r.get exists on a dict
\* only, a PredictionResponse has no attribute `get`
successful_count(results) ==
    IF \E i \in 1..Len(results) : ~IsDict(results[i])
    THEN Raised("AttributeError")
    ELSE Returned(Cardinality({i \in 1..Len(results) : Get(results[i], "success", FALSE)}))

\* the dict predict_batch returns
batch_response(requests, results, successful) ==
    IF successful.raised # "none"
    THEN successful
    ELSE Returned([ total      |-> Len(requests),
                    successful |-> successful.value,
                    results    |-> results ])

batch_outcome(requests, results) ==
    batch_response(requests, results, successful_count(results))

predict_batch(mdl, encs, requests, fp_error) ==
    IF not_loaded(mdl, encs)
    THEN [out |-> HTTPException(503, "Model not loaded"), calls |-> <<>>]
    ELSE [out |-> batch_outcome(requests,
                                batch_results(mdl, encs, requests, fp_error)),
          calls |-> batch_calls(mdl, encs, requests, fp_error)]

\* what the framework answers: the returned body with 200, an HTTPException's
\* status, and 500 for any other exception that leaves the handler
http_response(out) ==
    IF out.raised = "none" THEN [status |-> 200, body |-> out.value]
    ELSE IF out.raised = "HTTPException"
    THEN [status |-> out.status_code, detail |-> out.detail]
    ELSE [status |-> 500, detail |-> out.raised]

(***************************************************************************)
(* Bounds and input sets                                                   *)
(***************************************************************************)
MaxBatch == 2      \* longest list of requests sent to /predict/batch
MaxSeats == 190    \* largest seats_remaining given to calculate_inventory_factor
MaxDays == 65      \* largest days_until_flight given to calculate_time_factor
MaxOurPrice == 130 \* largest price given to calculate_competition_factor

D_2024_06_01 == <<"2","0","2","4","-","0","6","-","0","1">>   \* a Saturday
D_2024_06_03 == <<"2","0","2","4","-","0","6","-","0","3">>   \* a Monday
D_2024_06_14 == <<"2","0","2","4","-","0","6","-","1","4">>   \* a Friday
D_2024_06_15 == <<"2","0","2","4","-","0","6","-","1","5">>   \* a Saturday
D_2024_05_20 == <<"2","0","2","4","-","0","5","-","2","0">>   \* a Monday
D_2024_12_29 == <<"2","0","2","4","-","1","2","-","2","9">>   \* a Sunday
D_slashes    == <<"0","6","/","1","5","/","2","0","2","4">>   \* "06/15/2024"
D_month_13   == <<"2","0","2","4","-","1","3","-","0","1">>   \* "2024-13-01"
D_feb_30     == <<"2","0","2","3","-","0","2","-","3","0">>   \* "2023-02-30"

GoodDates == {D_2024_06_03, D_2024_06_15, D_2024_05_20, D_2024_12_29}
BadDates  == {D_slashes, D_month_13, D_feb_30, <<>>}

SFO == <<"S", "F", "O">>
ZZ  == <<"Z", "Z">>
FareCodes == { <<>>, Y14, <<"q", "L", "H", "2">>, <<"F", "C", "H">> }

\* stub regressors (amounts in tenths) and encoder sets
Models ==
    { [base |-> 0,     slope |-> 0],
      [base |-> 1200, slope |-> 0],
      [base |-> 995,  slope |-> 250] }

FullEncoders ==
    [ AIRLINE_CODE |-> <<<<"A", "A">>, DL, <<"U", "A">>>>,
      ORIGIN_CITY  |-> <<<<"A", "T", "L">>, JFK, LAX, SFO>>,
      DEST_CITY    |-> <<<<"A", "T", "L">>, JFK, LAX, SFO>> ]

EncoderSets ==
    { FullEncoders,
      [ ORIGIN_CITY |-> FullEncoders.ORIGIN_CITY,
        DEST_CITY   |-> FullEncoders.DEST_CITY ] }

CompetitorLists == { <<>>, <<1000, 1100, 900>>, <<2000>> }

\* the requests sent to /predict (all pass FlightRequest's validation)
BaseRequest ==
    [ searchDate          |-> D_2024_06_01,
      flightDate          |-> D_2024_06_15,
      startingAirport     |-> JFK,
      destinationAirport  |-> LAX,
      seatsRemaining      |-> 50,
      totalTravelDistance |-> 1000,
      durationMinutes     |-> 180,
      numSegments         |-> 1,
      carrier             |-> DL,
      departureHour       |-> 10,
      isBasicEconomy      |-> FALSE,
      isNonStop           |-> TRUE,
      isRefundable        |-> FALSE,
      isHoliday           |-> FALSE,
      fareBasisCode       |-> Y14,
      competitor_prices   |-> <<>>,
      total_seats         |-> 180 ]

With(d, k, v) == SetItem(d, k, v)
Without(d, k) == [x \in (DOMAIN d) \ {k} |-> d[x]]

DatedRequests ==
    { With(With(BaseRequest, "searchDate", sd), "flightDate", fd) :
        sd \in {D_2024_06_01, D_slashes}, fd \in GoodDates \cup {D_month_13, D_feb_30} }

FareRequests ==
    { With(With(With(r, "fareBasisCode", fc), "carrier", c), "seatsRemaining", n) :
        r \in DatedRequests, fc \in FareCodes, c \in {DL, ZZ}, n \in {2, 50} }

OverrideRequests ==
    FareRequests
    \cup { With(With(r, "cabinCategory", 5), "passengerType", 1) : r \in FareRequests }
    \cup { With(r, "cabinCategory", 2) : r \in FareRequests }

Requests ==
    { With(With(r, "competitor_prices", cp), "total_seats", ts) :
        r \in OverrideRequests, cp \in {<<>>, <<1000, 1100, 900>>}, ts \in {0, 180} }

\* the requests a batch is made of
BatchRequests ==
    { BaseRequest,
      With(BaseRequest, "flightDate", D_month_13),
      With(BaseRequest, "searchDate", D_slashes),
      With(With(BaseRequest, "startingAirport", SFO), "seatsRemaining", 2) }

Batches == UNION { [1..n -> BatchRequests] : n \in 0..MaxBatch }

(***************************************************************************)
(* Inputs of direct calls into the core                                    *)
(***************************************************************************)
BasePrices == {0, 1, 5, 995, 1200, 15010}

Configs ==
    { None,
      [ demand_weight |-> 300, competition_weight |-> 300, inventory_weight |-> 300,
        time_weight |-> 300, seasonality_weight |-> 300 ],
      [ demand_weight |-> -300, competition_weight |-> 25, inventory_weight |-> -300,
        time_weight |-> -300, seasonality_weight |-> 10 ] }

FullContexts ==
    [ is_weekend        : {0, 1},
      flight_month      : {6, 10},
      flight_weekday    : {3, 5},
      days_until_flight : {0, 2, 5, 10, 30, 60},
      seats_remaining   : {2, 50, 120},
      total_seats       : {0, 180},
      competitor_prices : {<<>>, <<1000, 1100, 900>>},
      season            : {"peak_summer", "off_season", "charter"} ]

Contexts ==
    FullContexts
    \cup { <<>>,
           [competitor_prices |-> <<1000, 1100, 900>>],
           [competitor_prices |-> <<1000, 1100, 900>>, current_price |-> 1200],
           [competitor_prices |-> <<0, 0>>, ml_prediction |-> 1200] }

\* competition needs the base price in the context, as predict_price puts it
PricedContext(context, ml_prediction) ==
    IF DOMAIN context = DOMAIN [c \in {} |-> 0] \/ "current_price" \in DOMAIN context
       \/ "ml_prediction" \in DOMAIN context
    THEN context
    ELSE SetItem(context, "ml_prediction", ml_prediction)

DynamicPriceArgs ==
    { [ml_prediction |-> b, context |-> PricedContext(c, b), config |-> w] :
        b \in BasePrices, c \in Contexts, w \in Configs }

InventoryArgs ==
    { [context |-> [seats_remaining |-> n, total_seats |-> t]] :
        n \in 0..MaxSeats, t \in {0, 100, 180} }
    \cup { [context |-> <<>>],
           [context |-> [seats_remaining |-> 2]],
           [context |-> [total_seats |-> 0]] }

\* flight_data as the API builds it, and with optional entries left out
ApiFlightDatas == { request_flight_data(r) : r \in OverrideRequests }

RequiredKeys == {"searchDate", "flightDate"}

RichFlightData ==
    LET api == request_flight_data(
                 With(With(With(BaseRequest, "cabinCategory", 5), "passengerType", 1),
                      "flightDate", D_2024_12_29))
    IN  With(With(With(api, "carrier", <<"U", "A">>), "startingAirport", SFO),
             "destinationAirport", <<"A", "T", "L">>)

OptionalKeys == (DOMAIN RichFlightData) \ RequiredKeys

KeyChoices ==
    { {}, OptionalKeys }
    \cup { {k} : k \in OptionalKeys }
    \cup { OptionalKeys \ {k} : k \in OptionalKeys }
    \cup { {"carrier", "startingAirport", "destinationAirport"} }

Restrict(d, ks) == [x \in (DOMAIN d) \cap ks |-> d[x]]

\* a carrier code made of digits, which float() parses
DigitCarrier == <<"7", "7">>

PartialFlightDatas ==
    { Restrict(RichFlightData, RequiredKeys \cup ks) : ks \in KeyChoices }
    \cup { Restrict(RichFlightData, {"flightDate"}),
           Restrict(RichFlightData, {"searchDate"}),
           With(Restrict(RichFlightData, RequiredKeys), "airlineCode", DigitCarrier) }

KWE == <<"K", "W", "E">>

\* fare codes with and without "WE"/"WK" (and the empty one) on a Monday, a
\* Saturday and a Sunday
WeekendCodeFlightDatas ==
    { With(With(Restrict(RichFlightData, RequiredKeys), "fareBasisCode", fc),
           "flightDate", d) :
        fc \in { KWE, <<"q", "w", "k", "7">>, Y14, <<>> },
        d \in { D_2024_06_03, D_2024_06_15, D_2024_12_29 } }

FlightDatas == ApiFlightDatas \cup PartialFlightDatas \cup WeekendCodeFlightDatas

FeatureDicts ==
    { create_ml_features(fd).value :
        fd \in { x \in FlightDatas : create_ml_features(x).raised = "none" } }

MarketDatas ==
    { None,
      <<>>,
      [competitor_prices |-> <<>>, total_seats |-> 180],
      [competitor_prices |-> <<1000, 1100, 900>>, total_seats |-> 180],
      [competitor_prices |-> <<1000, 1100, 900>>, total_seats |-> 100,
       ml_prediction |-> 777, season |-> "peak_summer"],
      [competitor_prices |-> <<1050>>, total_seats |-> 180,
       current_price |-> 2000, ml_prediction |-> 777] }

\* calculate_demand_factor called directly
DemandArgs ==
    { [context |-> c] :
        c \in [ is_weekend        : {0, 1},
                flight_month      : 1..12,
                flight_weekday    : 0..6,
                days_until_flight : {0, 6, 7, 21, 22, 30} ] }
    \cup { [context |-> <<>>] }

\* calculate_competition_factor called directly
CompetitionArgs ==
    { [context |-> [competitor_prices |-> cp, ml_prediction |-> b]] :
        cp \in {<<>>, <<100, 110, 90>>, <<100, 101>>}, b \in 0..MaxOurPrice }
    \cup { [context |-> <<>>],
           [context |-> [ml_prediction |-> 120]],
           [context |-> [competitor_prices |-> <<100, 110, 90>>]] }

\* calculate_time_factor called directly
TimeArgs ==
    { [context |-> [days_until_flight |-> d]] : d \in (-1)..MaxDays }
    \cup { [context |-> <<>>] }

\* parse_fare_code called directly: the code, and the context it is given
ParseFareCodes ==
    FareCodes
    \cup { <<"K", "N", "W", "E">>, <<"h", "7", "I", "N">>,
           <<"L", "H", "2">>, <<"H", "L", "H">>, <<"H", "L">>, <<"L", "X", "H">>,
           <<"L", "7">>, <<"l", "h">>, <<"C", "H", "I", "N">>, <<"I", "N", "C", "H">>,
           <<"C", "1", "H">>, <<"I", "N", "F">>, <<"n", "c", "h">> }

ParseContexts ==
    { None,
      <<>>,
      [departureHour |-> 23],
      [departureHour |-> 0],
      [departureHour |-> 5],
      [departureHour |-> 6],
      [departureHour |-> 21],
      [departureHour |-> 22],
      [departureHour |-> 10, flightDate |-> D_2024_06_03],
      [flightDate |-> D_2024_06_15],
      [departureHour |-> 3, flightDate |-> D_2024_12_29],
      [flightDate |-> D_month_13] }

\* calculate_confidence called directly: features of flights between these
\* airports, booked 14 days ahead or after departure, with 2 or 50 seats left
ORD == <<"O", "R", "D">>
ATL == <<"A", "T", "L">>
XAL == <<"X", "A", "L">>
KFJ == <<"K", "F", "J">>
Airports == {JFK, LAX, SFO, ORD, ATL, XAL, KFJ}

ConfidenceFlightDatas ==
    { With(With(With(With(request_flight_data(BaseRequest), "originCity", o),
                     "destCity", d), "seatsRemaining", n), "flightDate", fd) :
        o \in Airports, d \in Airports, n \in {2, 50},
        fd \in {D_2024_06_15, D_2024_05_20} }

\* an ordered dict with the value of one of its keys replaced
Replaced(od, k, v) == [i \in 1..Len(od) |-> IF od[i][1] = k THEN <<k, v>> ELSE od[i]]

\* features on both sides of every threshold of calculate_confidence, for the
\* listed route JFK-LAX and for SFO-ATL, which is not listed in any direction
ThresholdFeatures ==
    { Replaced(Replaced(Replaced(
          create_ml_features(request_flight_data(BaseRequest)).value,
          "ORIGIN_CITY", o), "DAYS_UNTIL_FLIGHT", d), "SEATS_REMAINING", n) :
        o \in {JFK, SFO}, d \in {0, 2, 3, 6, 7, 60, 61, 90, 91},
        n \in {9, 10, 150, 151} }
    \cup
    { Replaced(Replaced(
          create_ml_features(request_flight_data(BaseRequest)).value,
          "ORIGIN_CITY", SFO), "DEST_CITY", ATL) }

ConfidenceArgs ==
    { [features |-> create_ml_features(fd).value, ml_prediction |-> b] :
        fd \in ConfidenceFlightDatas, b \in {1200, 15010} }
    \cup
    { [features |-> f, ml_prediction |-> b] :
        f \in ThresholdFeatures, b \in {999, 1000, 15000, 15001} }

PredictPriceFlightDatas ==
    { request_flight_data(r) :
        r \in { x \in OverrideRequests : x.carrier = DL } }
    \cup PartialFlightDatas
    \cup { request_flight_data(With(BaseRequest, "flightDate", D_2024_06_14)) }

(***************************************************************************)
(* Specification of the service: the startup load and the two endpoints    *)
(***************************************************************************)
\* no request is being handled
Idle == [status |-> 0]

Init ==
    /\ model = None
    /\ encoders = None
    /\ op = "init"
    /\ args = <<>>
    /\ ret = Idle
    /\ market_data = None
    /\ calls = <<>>

\* startup_event: both globals are assigned from one load, or the load raises
StartupLoads ==
    /\ model = None /\ encoders = None /\ ret = Idle
    /\ \E m \in Models, e \in EncoderSets :
          /\ model' = m
          /\ encoders' = e
    /\ op' = "startup_event"
    /\ UNCHANGED <<args, ret, market_data, calls>>

StartupFails ==
    /\ model = None /\ encoders = None /\ ret = Idle
    /\ op' = "startup_event_failed"
    /\ UNCHANGED <<model, encoders, args, ret, market_data, calls>>

\* POST /predict, from the request to the response
Predict ==
    /\ ret = Idle
    /\ \E request \in Requests, fp_error \in FpErrors :
        LET r == predict(model, encoders, request, fp_error)
        IN  /\ op' = "predict"
            /\ args' = [request |-> request]
            /\ ret' = http_response(r.out)
            /\ calls' = r.calls
    /\ UNCHANGED <<model, encoders, market_data>>

\* POST /predict/batch, from the request to the response
PredictBatch ==
    /\ ret = Idle
    /\ \E requests \in Batches, fp_error \in FpErrors :
        LET r == predict_batch(model, encoders, requests, fp_error)
        IN  /\ op' = "predict_batch"
            /\ args' = [requests |-> requests]
            /\ ret' = http_response(r.out)
            /\ calls' = r.calls
    /\ UNCHANGED <<model, encoders, market_data>>

\* the response is sent and the server waits for the next request
Respond ==
    /\ ret # Idle
    /\ op' = "idle"
    /\ args' = <<>>
    /\ ret' = Idle
    /\ calls' = <<>>
    /\ UNCHANGED <<model, encoders, market_data>>

Next == StartupLoads \/ StartupFails \/ Predict \/ PredictBatch \/ Respond

Spec == Init /\ [][Next]_vars

(***************************************************************************)
(* Specification of direct calls into the core: the arguments are drawn    *)
(* in the initial state and the one enabled action applies the function    *)
(***************************************************************************)
Pending == [raised |-> "pending"]

InitCore ==
    /\ model = None
    /\ encoders = None
    /\ ret = Pending
    /\ calls = <<>>
    /\ \/ /\ op = "calculate_dynamic_price"
          /\ args \in DynamicPriceArgs
          /\ market_data = None
       \/ /\ op = "calculate_inventory_factor"
          /\ args \in InventoryArgs
          /\ market_data = None
       \/ /\ op = "create_ml_features"
          /\ \E fd \in FlightDatas : args = [flight_data |-> fd]
          /\ market_data = None
       \/ /\ op = "get_ml_prediction"
          /\ \E m \in Models, e \in EncoderSets \cup {<<>>}, f \in FeatureDicts :
                args = [model |-> m, encoders |-> e, features |-> f]
          /\ market_data = None
       \/ /\ op = "calculate_confidence"
          /\ args \in ConfidenceArgs
          /\ market_data = None
       \/ /\ op = "calculate_competition_factor"
          /\ args \in CompetitionArgs
          /\ market_data = None
       \/ /\ op = "calculate_demand_factor"
          /\ args \in DemandArgs
          /\ market_data = None
       \/ /\ op = "calculate_time_factor"
          /\ args \in TimeArgs
          /\ market_data = None
       \/ /\ op = "parse_fare_code"
          /\ \E fd \in ParseContexts :
                \/ \E fc \in ParseFareCodes :
                      args = [fare_code |-> fc, flight_data |-> fd]
                \/ args = [fare_code |-> None, flight_data |-> fd]
          /\ market_data = None
       \/ /\ op = "predict_price"
          /\ \E m \in Models, e \in EncoderSets, fd \in PredictPriceFlightDatas,
                md \in MarketDatas :
                /\ args = [model |-> m, encoders |-> e, flight_data |-> fd,
                           market_data |-> md]
                /\ market_data = md

CallDynamicPrice ==
    /\ op = "calculate_dynamic_price" /\ ret = Pending
    /\ \E fp_error \in FpErrors :
          ret' = calculate_dynamic_price(args.ml_prediction, args.context,
                                         args.config, fp_error)
    /\ UNCHANGED <<model, encoders, op, args, market_data, calls>>

CallInventoryFactor ==
    /\ op = "calculate_inventory_factor" /\ ret = Pending
    /\ ret' = Returned(calculate_inventory_factor(args.context))
    /\ UNCHANGED <<model, encoders, op, args, market_data, calls>>

CallCreateMlFeatures ==
    /\ op = "create_ml_features" /\ ret = Pending
    /\ ret' = create_ml_features(args.flight_data)
    /\ UNCHANGED <<model, encoders, op, args, market_data, calls>>

\* `dmatrix` is the row handed to model.predict
CallGetMlPrediction ==
    /\ op = "get_ml_prediction" /\ ret = Pending
    /\ ret' = LET r == get_ml_prediction(args.model, args.encoders, args.features)
              IN  IF r.raised = "none"
                  THEN SetItem(r, "dmatrix", feature_values(args.encoders, args.features))
                  ELSE r
    /\ UNCHANGED <<model, encoders, op, args, market_data, calls>>

CallCalculateConfidence ==
    /\ op = "calculate_confidence" /\ ret = Pending
    /\ ret' = Returned(calculate_confidence(args.features, args.ml_prediction))
    /\ UNCHANGED <<model, encoders, op, args, market_data, calls>>

CallCompetitionFactor ==
    /\ op = "calculate_competition_factor" /\ ret = Pending
    /\ ret' = Returned(calculate_competition_factor(args.context))
    /\ UNCHANGED <<model, encoders, op, args, market_data, calls>>

CallDemandFactor ==
    /\ op = "calculate_demand_factor" /\ ret = Pending
    /\ ret' = Returned(calculate_demand_factor(args.context))
    /\ UNCHANGED <<model, encoders, op, args, market_data, calls>>

CallTimeFactor ==
    /\ op = "calculate_time_factor" /\ ret = Pending
    /\ ret' = Returned(calculate_time_factor(args.context))
    /\ UNCHANGED <<model, encoders, op, args, market_data, calls>>

CallParseFareCode ==
    /\ op = "parse_fare_code" /\ ret = Pending
    /\ ret' = Returned(parse_fare_code(args.fare_code, args.flight_data))
    /\ UNCHANGED <<model, encoders, op, args, market_data, calls>>

CallPredictPrice ==
    /\ op = "predict_price" /\ ret = Pending
    /\ \E fp_error \in FpErrors :
          LET r == predict_price(args.model, args.encoders, args.flight_data,
                                 market_data, fp_error)
          IN  /\ ret' = r.out
              /\ market_data' = r.market_data
    /\ UNCHANGED <<model, encoders, op, args, calls>>

NextCore ==
    \/ CallDynamicPrice
    \/ CallInventoryFactor
    \/ CallCreateMlFeatures
    \/ CallGetMlPrediction
    \/ CallCalculateConfidence
    \/ CallTimeFactor
    \/ CallDemandFactor
    \/ CallCompetitionFactor
    \/ CallParseFareCode
    \/ CallPredictPrice

SpecCore == InitCore /\ [][NextCore]_vars

(***************************************************************************)
(* Properties                                                              *)
(***************************************************************************)
DynamicPriceReturned ==
    op = "calculate_dynamic_price" /\ ret.raised = "none"

\* C1: for every base price > 0, every context and every weight configuration,
\* final_price is within half a currency unit (5 tenths) of the interval
\* [0.70 * base, 1.50 * base]; the same holds of predict_price's dynamic_price.
C1_PriceWithinBounds ==
    /\ (DynamicPriceReturned /\ args.ml_prediction > 0) =>
          /\ 10 * ret.value.final_price >= 7 * args.ml_prediction - 50
          /\ 10 * ret.value.final_price <= 15 * args.ml_prediction + 50
    /\ (op = "predict_price" /\ ret.raised = "none" /\ ret.value.ml_base_price > 0) =>
          /\ 10 * ret.value.dynamic_price >= 7 * ret.value.ml_base_price - 50
          /\ 10 * ret.value.dynamic_price <= 15 * ret.value.ml_base_price + 50

\* C1 witness: weights under which the weighted adjustment exceeds +50% and the
\* price returned is the upper bound 1.5 * 120.0 = 180
C1_Witness ==
    /\ DynamicPriceReturned
    /\ args.ml_prediction = 1200
    /\ args.config # None
    /\ weighted_total(args.context, args.config) > 5000
    /\ ret.value.final_price = 1800

\* C2: with a base price of exactly 0, calculate_dynamic_price and predict_price
\* do not raise and report a zero adjustment.
C2_ZeroBasePriceNeutral ==
    /\ (op = "calculate_dynamic_price" /\ ret # Pending /\ args.ml_prediction = 0) =>
          /\ ret.raised = "none"
          /\ ret.value.final_price = 0
          /\ ret.value.total_adjustment.num = 0
    /\ (op = "predict_price" /\ ret # Pending
        /\ create_ml_features(args.flight_data).raised = "none"
        /\ get_ml_prediction(args.model, args.encoders,
                             create_ml_features(args.flight_data).value).value = 0) =>
          /\ ret.raised = "none"
          /\ ret.value.dynamic_price = 0
          /\ ret.value.total_adjustment_pct.num = 0

\* C3: with total_seats = 0, calculate_inventory_factor does not raise and
\* returns 0.0 whatever seats_remaining is.
C3_ZeroTotalSeatsNeutral ==
    (op = "calculate_inventory_factor" /\ ret # Pending
     /\ Get(args.context, "total_seats", 180) = 0) =>
        /\ ret.raised = "none"
        /\ ret.value = 0

\* C4: a cabin category or passenger type override in flight_data is the value
\* of cabin_category / passenger_type in the feature dict.
C4_OverridesTakePrecedence ==
    (op = "create_ml_features" /\ ret.raised = "none") =>
        /\ ("cabin_category_override" \in DOMAIN args.flight_data =>
              Item(ret.value, "cabin_category") = args.flight_data["cabin_category_override"])
        /\ ("passenger_type_override" \in DOMAIN args.flight_data =>
              Item(ret.value, "passenger_type") = args.flight_data["passenger_type_override"])

DatesParse(flight_data) ==
    /\ RequiredKeys \subseteq DOMAIN flight_data
    /\ strptime(flight_data["searchDate"]).ok
    /\ strptime(flight_data["flightDate"]).ok

\* C5: with parseable dates, whichever optional entries are present,
\* create_ml_features returns 23 entries whose keys are FEATURE_ORDER in order,
\* and get_ml_prediction hands the model 23 numbers, the i-th being the
\* (encoded) value of the i-th name of FEATURE_ORDER.
C5_FeatureOrder ==
    /\ (op = "create_ml_features" /\ ret # Pending /\ DatesParse(args.flight_data)) =>
          /\ ret.raised = "none"
          /\ Len(ret.value) = 23
          /\ Keys(ret.value) = FEATURE_ORDER
    /\ (op = "get_ml_prediction" /\ ret # Pending) =>
          /\ ret.raised = "none"
          /\ Len(ret.dmatrix) = 23
          /\ \A i \in 1..23 :
                /\ ret.dmatrix[i] \in Int
                /\ FEATURE_ORDER[i] \notin string_categorical_cols =>
                      ret.dmatrix[i] = args.features[i][2]
                /\ (FEATURE_ORDER[i] \in string_categorical_cols
                    /\ FEATURE_ORDER[i] \in DOMAIN args.encoders
                    /\ Known(args.encoders[FEATURE_ORDER[i]], args.features[i][2])) =>
                      args.encoders[FEATURE_ORDER[i]][ret.dmatrix[i] + 1]
                        = args.features[i][2]

\* C5 witness: the features built from a flight_data holding the two dates
\* only, handed to the model through encoders that lack the carrier column
C5_Witness ==
    /\ op = "get_ml_prediction"
    /\ ret.raised = "none"
    /\ args.features = create_ml_features(Restrict(RichFlightData, RequiredKeys)).value
    /\ "AIRLINE_CODE" \notin DOMAIN args.encoders
    /\ Len(ret.dmatrix) = 23

Handled(endpoint) == op = endpoint /\ ret # Idle

\* C6: predict_price is never invoked while the model or the encoders are not
\* loaded: a request handled before the load is answered 503 without a call
\* into the core, and every call into the core sees both loaded.
C6_ReadinessGate ==
    /\ \A i \in 1..Len(calls) : calls[i].model_loaded /\ calls[i].encoders_loaded
    /\ ((Handled("predict") \/ Handled("predict_batch")) /\ not_loaded(model, encoders)) =>
          /\ ret.status = 503
          /\ calls = <<>>

\* C6 witness: a /predict request handled before the startup load
C6_Witness ==
    /\ Handled("predict")
    /\ model = None
    /\ ret.status = 503
    /\ calls = <<>>

ItemSucceeds(request) == predict(model, encoders, request, 0).out.raised = "none"

\* C7: /predict/batch answers every list of requests with a body in which each
\* failed item is a failure record and `successful` counts the items that
\* succeeded.
C7_BatchReportsFailures ==
    (Handled("predict_batch") /\ ~not_loaded(model, encoders)) =>
        /\ ret.status = 200
        /\ \A i \in 1..Len(args.requests) :
              ~ItemSucceeds(args.requests[i]) =>
                  /\ IsDict(ret.body.results[i])
                  /\ ret.body.results[i].success = FALSE
                  /\ "error" \in DOMAIN ret.body.results[i]
        /\ ret.body.successful =
              Cardinality({i \in 1..Len(args.requests) : ItemSucceeds(args.requests[i])})

\* C8: /predict/batch answers with as many results as requests, the i-th being
\* the outcome of the i-th request, and with `total` the number of requests.
C8_BatchResultsInOrder ==
    (Handled("predict_batch") /\ ~not_loaded(model, encoders)) =>
        /\ ret.status = 200
        /\ ret.body.total = Len(args.requests)
        /\ Len(ret.body.results) = Len(args.requests)
        /\ \A i \in 1..Len(args.requests) :
              \E fp_error \in FpErrors :
                  ret.body.results[i] =
                      batch_item(args.requests[i],
                                 predict(model, encoders, args.requests[i],
                                         fp_error).out)

\* C9: after predict_price the caller's market_data equals its value before
\* the call.
C9_MarketDataUnchanged ==
    (op = "predict_price" /\ ret # Pending) => market_data = args.market_data

BadDates_In(request) ==
    ~strptime(request.searchDate).ok \/ ~strptime(request.flightDate).ok

\* C10 as stated: a request with an unparseable searchDate or flightDate is
\* answered 400 by /predict.
C10_BadDateAnswered400 ==
    (Handled("predict") /\ BadDates_In(args.request)) => ret.status = 400

\* C10 amended: such a request makes create_ml_features raise ValueError, and
\* /predict answers it 400 once the model and encoders are loaded and 503,
\* without calling the core, before that; never with a price, never with 500.
C10_BadDateRejected ==
    (Handled("predict") /\ BadDates_In(args.request)) =>
        /\ create_ml_features(request_flight_data(args.request)).raised = "ValueError"
        /\ ret.status = IF not_loaded(model, encoders) THEN 503 ELSE 400
        /\ not_loaded(model, encoders) => calls = <<>>
        /\ "body" \notin DOMAIN ret

\* C10 witness: a loaded service answering 400 to a flightDate of 2024-13-01
C10_Witness ==
    /\ Handled("predict")
    /\ ~not_loaded(model, encoders)
    /\ args.request.flightDate = D_month_13
    /\ strptime(args.request.searchDate).ok
    /\ ret.status = 400

\* C11: with parseable dates, whichever optional entries flight_data lacks,
\* create_ml_features does not raise, and an entry that is missing is filled
\* with its default: seats remaining 50, distance 1000, duration 180,
\* segments 1, carrier "DL", origin "JFK", destination "LAX".
C11_MissingFieldsDefault ==
    (op = "create_ml_features" /\ ret # Pending /\ DatesParse(args.flight_data)) =>
        /\ ret.raised = "none"
        /\ "seatsRemaining" \notin DOMAIN args.flight_data =>
              Item(ret.value, "SEATS_REMAINING") = 50
        /\ "totalTravelDistance" \notin DOMAIN args.flight_data =>
              Item(ret.value, "TOTAL_TRAVEL_DISTANCE") = 1000
        /\ "durationMinutes" \notin DOMAIN args.flight_data =>
              Item(ret.value, "TRAVEL_DURATION_MINUTES") = 180
        /\ "numSegments" \notin DOMAIN args.flight_data =>
              Item(ret.value, "NUM_SEGMENTS") = 1
        /\ {"airlineCode", "carrier"} \cap DOMAIN args.flight_data = {} =>
              Item(ret.value, "AIRLINE_CODE") = <<"D", "L">>
        /\ {"originCity", "startingAirport"} \cap DOMAIN args.flight_data = {} =>
              Item(ret.value, "ORIGIN_CITY") = <<"J", "F", "K">>
        /\ {"destCity", "destinationAirport"} \cap DOMAIN args.flight_data = {} =>
              Item(ret.value, "DEST_CITY") = <<"L", "A", "X">>

\* C11 witness: a flight_data holding the two dates only, answered with every
\* default
C11_Witness ==
    /\ op = "create_ml_features"
    /\ DOMAIN args.flight_data = RequiredKeys
    /\ ret.raised = "none"
    /\ Item(ret.value, "SEATS_REMAINING") = 50
    /\ Item(ret.value, "NUM_SEGMENTS") = 1
    /\ Item(ret.value, "AIRLINE_CODE") = <<"D", "L">>
    /\ Item(ret.value, "DEST_CITY") = <<"L", "A", "X">>

\* C12: for an empty or missing fare code, parse_fare_code returns exactly the
\* default signals (cabin 1, rule 0, passenger 0, seasonality 1, no numeric
\* rule, not night, not weekend) whatever context it is given, a night
\* departure hour or a weekend flight date included; create_ml_features puts
\* the same defaults in the feature dict when flight_data has no fare code.
C12_EmptyFareCodeDefaults ==
    /\ (op = "parse_fare_code" /\ ret # Pending
        /\ (args.fare_code = None \/ args.fare_code = <<>>)) =>
          /\ ret.raised = "none"
          /\ ret.value = [ cabin_category        |-> 1,
                           fare_rule_number      |-> 0,
                           passenger_type        |-> 0,
                           seasonality_proxy     |-> 1,
                           has_numeric_rule      |-> 0,
                           is_night_fare_proxy   |-> 0,
                           is_weekend_fare_proxy |-> 0 ]
    /\ (op = "create_ml_features" /\ ret # Pending /\ DatesParse(args.flight_data)
        /\ Get(args.flight_data, "fareBasisCode", <<>>) = <<>>) =>
          /\ ret.raised = "none"
          /\ SubSeq(ret.value, 17, 23) =
                << <<"cabin_category", 1>>, <<"fare_rule_number", 0>>,
                   <<"passenger_type", 0>>, <<"seasonality_proxy", 1>>,
                   <<"has_numeric_rule", 0>>, <<"is_night_fare_proxy", 0>>,
                   <<"is_weekend_fare_proxy", 0>> >>

\* C12 witness: no fare code, a departure at 3 o'clock on a Sunday, and the
\* defaults returned all the same
C12_Witness ==
    /\ op = "parse_fare_code"
    /\ args.fare_code = None
    /\ args.flight_data # None
    /\ Get(args.flight_data, "departureHour", 12) = 3
    /\ Get(args.flight_data, "flightDate", <<>>) = D_2024_12_29
    /\ ret # Pending
    /\ ret.value.is_night_fare_proxy = 0
    /\ ret.value.is_weekend_fare_proxy = 0

InventoryCallOf(seats, total) ==
    /\ op = "calculate_inventory_factor"
    /\ ret # Pending
    /\ DOMAIN args.context = {"seats_remaining", "total_seats"}
    /\ args.context.seats_remaining = seats
    /\ args.context.total_seats = total

\* C13: for a fixed total_seats (0 included), the inventory factor at a smaller
\* seats_remaining is never below the factor at a larger one.
C13_InventoryMonotone ==
    (op = "calculate_inventory_factor" /\ ret # Pending
     /\ DOMAIN args.context = {"seats_remaining", "total_seats"}) =>
        /\ ret.raised = "none"
        /\ \A a \in 0..(args.context.seats_remaining - 1) :
              calculate_inventory_factor(
                  [seats_remaining |-> a, total_seats |-> args.context.total_seats])
                >= ret.value

\* C13 witness: 120 of 180 seats left is discounted while 2 of 180 is charged
C13_Witness ==
    /\ InventoryCallOf(120, 180)
    /\ ret.value < 0
    /\ calculate_inventory_factor([seats_remaining |-> 2, total_seats |-> 180]) > 0

\* C14: a carrier, origin or destination that its encoder does not know, or
\* whose encoder is absent, does not make get_ml_prediction raise and is 0 in
\* the row handed to the model.
C14_UnknownCategoryIsZero ==
    (op = "get_ml_prediction" /\ ret # Pending) =>
        /\ ret.raised = "none"
        /\ \A i \in 1..Len(FEATURE_ORDER) :
              (/\ FEATURE_ORDER[i] \in string_categorical_cols
               /\ \/ FEATURE_ORDER[i] \notin DOMAIN args.encoders
                  \/ ~Known(args.encoders[FEATURE_ORDER[i]],
                            Item(args.features, FEATURE_ORDER[i]))) =>
                  ret.dmatrix[i] = 0

\* "origin-destination"
RouteName(origin, destination) == origin \o <<"-">> \o destination

\* C15: the route earns its +2 exactly when origin-destination or
\* destination-origin is one of the popular routes.  Seen on calls in which no
\* other check scores (fewer than 3 days ahead, fewer than 10 seats, a base
\* price above 1500): the label is Medium with the +2 and Low without.
C15_RouteOrReversedRoute ==
    (/\ op = "calculate_confidence" /\ ret # Pending
     /\ Item(args.features, "DAYS_UNTIL_FLIGHT") < 3
     /\ Item(args.features, "SEATS_REMAINING") < 10
     /\ args.ml_prediction > 15000) =>
        /\ ret.raised = "none"
        /\ ret.value =
              IF \/ RouteName(Item(args.features, "ORIGIN_CITY"),
                              Item(args.features, "DEST_CITY")) \in popular_routes
                 \/ RouteName(Item(args.features, "DEST_CITY"),
                              Item(args.features, "ORIGIN_CITY")) \in popular_routes
              THEN "Medium"
              ELSE "Low"

\* the demand score without its day-of-week bonus: weekend, peak month and
\* booking window, read from the features predict_price returns
DemandWithoutDayOfWeek(features) ==
      (IF Item(features, "IS_WEEKEND") = 1 THEN 10 ELSE 0)
    + (IF Item(features, "FLIGHT_MONTH") \in {6, 7, 8, 12, 1} THEN 15 ELSE 0)
    + (IF 7 <= Item(features, "DAYS_UNTIL_FLIGHT")
          /\ Item(features, "DAYS_UNTIL_FLIGHT") <= 21 THEN 10 ELSE 0)

\* C16: in predict_price the demand factor holds the +0.10 day-of-week bonus
\* exactly when the flight date is a Friday (weekday 4) or a Saturday
\* (weekday 5).
C16_FridaySaturdayBonus ==
    (op = "predict_price" /\ ret.raised = "none") =>
        ret.value.factors.demand - DemandWithoutDayOfWeek(ret.value.features_used)
          = IF weekday(strptime(args.flight_data["flightDate"])) \in {4, 5}
            THEN 10 ELSE 0

\* the sum of factor * weight over the five factors a call returned
WeightedSum(adjustments, demand_weight, competition_weight, inventory_weight,
            time_weight, seasonality_weight) ==
      adjustments.demand      * demand_weight
    + adjustments.competition * competition_weight
    + adjustments.inventory   * inventory_weight
    + adjustments.time        * time_weight
    + adjustments.seasonality * seasonality_weight

\* round(clip(base * (1 + total_adj), 0.70 * base, 1.50 * base)), in tenths,
\* for total_adj in ten-thousandths
PriceFormula(base, total_adj) ==
    10 * round(Max(7000 * base, Min(15000 * base, base * (10000 + total_adj))),
               100000)

\* clip(base * (1 + total_adj), 0.70 * base, 1.50 * base), in 1/10000 of a tenth
ClipFormula(base, total_adj) ==
    Max(7000 * base, Min(15000 * base, base * (10000 + total_adj)))

\* the clipped value is exactly halfway between two whole amounts
PriceTie(base, total_adj) == 2 * (ClipFormula(base, total_adj) % 100000) = 100000

\* price (in tenths) is round() of the clipped value as floating point
\* delivers it: the nearest whole amount, and either of the two nearest where
\* the exact value is halfway between them
IsPriceFormula(price, base, total_adj) ==
    IF PriceTie(base, total_adj)
    THEN price \in { 10 * (ClipFormula(base, total_adj) \div 100000),
                     10 * (ClipFormula(base, total_adj) \div 100000) + 10 }
    ELSE price = PriceFormula(base, total_adj)

\* C17: the final price calculate_dynamic_price returns is
\* round(clip(base * (1 + total_adj), 0.70 * base, 1.50 * base)), total_adj
\* being the sum of factor * weight over the five factors, with the weights
\* 0.30 / 0.25 / 0.20 / 0.15 / 0.10 when no configuration is passed and the
\* configured weights otherwise (round of the floating-point value: where the
\* exact value is halfway between two whole amounts, one of the two).
C17_WeightedFormula ==
    DynamicPriceReturned =>
        /\ ret.value.adjustments =
              [ demand      |-> calculate_demand_factor(args.context),
                competition |-> calculate_competition_factor(args.context),
                inventory   |-> calculate_inventory_factor(args.context),
                time        |-> calculate_time_factor(args.context),
                seasonality |-> calculate_seasonality_factor(args.context) ]
        /\ IF args.config = None
           THEN IsPriceFormula(ret.value.final_price, args.ml_prediction,
                               WeightedSum(ret.value.adjustments, 30, 25, 20, 15, 10))
           ELSE IsPriceFormula(ret.value.final_price, args.ml_prediction,
                               WeightedSum(ret.value.adjustments,
                                           args.config.demand_weight,
                                           args.config.competition_weight,
                                           args.config.inventory_weight,
                                           args.config.time_weight,
                                           args.config.seasonality_weight))

\* C17 witness: a call without configuration, scarce seats and a departure
\* within a day, whose price lies strictly between the base and the upper bound
C17_Witness ==
    /\ DynamicPriceReturned
    /\ args.config = None
    /\ args.ml_prediction = 1200
    /\ ret.value.adjustments.inventory = 50
    /\ ret.value.adjustments.time = 50
    /\ ret.value.final_price > 1200
    /\ ret.value.final_price < 1800

\* C18: for a base price > 0 the total adjustment reported, a percentage, is
\* (final_price - base) / base * 100 with final_price the clipped and rounded
\* price returned next to it; predict_price reports the same quantity for its
\* dynamic_price and ml_base_price.
C18_RealizedAdjustment ==
    /\ (DynamicPriceReturned /\ args.ml_prediction > 0) =>
          /\ ret.value.total_adjustment.num
                = (ret.value.final_price - args.ml_prediction) * 100
          /\ ret.value.total_adjustment.den = args.ml_prediction
    /\ (op = "predict_price" /\ ret.raised = "none" /\ ret.value.ml_base_price > 0) =>
          /\ ret.value.total_adjustment_pct.num
                = (ret.value.dynamic_price - ret.value.ml_base_price) * 100
          /\ ret.value.total_adjustment_pct.den = ret.value.ml_base_price

\* C18 witness: a base of 99.5 and weights whose sum of weighted factors
\* exceeds +50%; the price is round(149.25) = 149 and the adjustment reported
\* is the realized 49.5 / 99.5, below both the bound and the weighted sum
C18_Witness ==
    /\ DynamicPriceReturned
    /\ args.ml_prediction = 995
    /\ args.config # None
    /\ weighted_total(args.context, args.config) > 5000
    /\ ret.value.final_price = 1490
    /\ ret.value.total_adjustment = [num |-> 49500, den |-> 995]

\* the brackets of the percentage p = seats / total * 100, first match wins
InventoryBracket(seats, total) ==
    IF      100 * seats <= 2  * total THEN 50
    ELSE IF 100 * seats <= 5  * total THEN 40
    ELSE IF 100 * seats <= 10 * total THEN 25
    ELSE IF 100 * seats <= 15 * total THEN 15
    ELSE IF 100 * seats >= 60 * total THEN -25
    ELSE IF 100 * seats >= 50 * total THEN -15
    ELSE IF 100 * seats >= 40 * total THEN -10
    ELSE 0

\* C19: for total_seats > 0, calculate_inventory_factor returns the value of
\* the first bracket that p = seats_remaining / total_seats * 100 matches:
\* p <= 2 +0.50, p <= 5 +0.40, p <= 10 +0.25, p <= 15 +0.15, p >= 60 -0.25,
\* p >= 50 -0.15, p >= 40 -0.10, otherwise 0.0; 50 of 180 seats gives 0.0 and
\* 2 of 180 gives +0.50.
C19_InventoryBrackets ==
    /\ (op = "calculate_inventory_factor" /\ ret # Pending
        /\ DOMAIN args.context = {"seats_remaining", "total_seats"}
        /\ args.context.total_seats > 0) =>
          ret = Returned(InventoryBracket(args.context.seats_remaining,
                                          args.context.total_seats))
    /\ InventoryCallOf(50, 180) => ret.value = 0
    /\ InventoryCallOf(2, 180) => ret.value = 50

\* C19 witness: 50 of 180 seats left, 27.8%, in no bracket
C19_Witness ==
    /\ InventoryCallOf(50, 180)
    /\ ret.value = 0

\* the brackets of the lead time in days, first match wins
TimeBracket(d) ==
    IF      d <= 1  THEN 50
    ELSE IF d <= 3  THEN 30
    ELSE IF d <= 7  THEN 20
    ELSE IF d <= 14 THEN 10
    ELSE IF d >= 60 THEN -10
    ELSE 0

\* C20: calculate_time_factor returns +0.50 for a lead time d <= 1, +0.30 for
\* d <= 3, +0.20 for d <= 7, +0.10 for d <= 14, -0.10 for d >= 60 and 0.0
\* otherwise, and its value at a shorter lead time is never below its value at
\* a longer one.
C20_TimeBrackets ==
    (op = "calculate_time_factor" /\ ret # Pending
     /\ "days_until_flight" \in DOMAIN args.context) =>
        /\ ret = Returned(TimeBracket(args.context.days_until_flight))
        /\ \A a \in (-1)..(args.context.days_until_flight - 1) :
              calculate_time_factor([days_until_flight |-> a]) >= ret.value

\* C20 witness: 60 days ahead is discounted, while the day before is charged
C20_Witness ==
    /\ op = "calculate_time_factor"
    /\ ret # Pending
    /\ Get(args.context, "days_until_flight", 30) = 60
    /\ ret.value = -10
    /\ calculate_time_factor([days_until_flight |-> 1]) = 50

\* the brackets of r = (our - mean) / mean for a competitor list of sum > 0,
\* r compared as (our * n - sum) / sum; strict inequalities, first match wins
CompetitionBracket(our, competitors) ==
    IF      100 * (our * Len(competitors) - SumSeq(competitors))
              > 15 * SumSeq(competitors)  THEN -20
    ELSE IF 100 * (our * Len(competitors) - SumSeq(competitors))
              > 10 * SumSeq(competitors)  THEN -15
    ELSE IF 100 * (our * Len(competitors) - SumSeq(competitors))
              > 5 * SumSeq(competitors)   THEN -8
    ELSE IF 100 * (our * Len(competitors) - SumSeq(competitors))
              < -10 * SumSeq(competitors) THEN 10
    ELSE IF 100 * (our * Len(competitors) - SumSeq(competitors))
              < -5 * SumSeq(competitors)  THEN 5
    ELSE 0

\* C21: calculate_competition_factor returns 0.0 without competitor prices or
\* with our price exactly 0; otherwise, r being (our price - mean) / mean of
\* the competitor prices, -0.20 if r > 0.15, -0.15 if r > 0.10, -0.08 if
\* r > 0.05, +0.10 if r < -0.10, +0.05 if r < -0.05, else 0.0; competitors
\* [100, 110, 90] and our price 120 give -0.20.
C21_CompetitionBrackets ==
    (op = "calculate_competition_factor" /\ ret # Pending) =>
        /\ ret.raised = "none"
        /\ Get(args.context, "competitor_prices", <<>>) = <<>> => ret.value = 0
        /\ Get(args.context, "ml_prediction", 0) = 0 => ret.value = 0
        /\ (DOMAIN args.context = {"competitor_prices", "ml_prediction"}
            /\ args.context.competitor_prices # <<>>
            /\ args.context.ml_prediction # 0) =>
              ret.value = CompetitionBracket(args.context.ml_prediction,
                                             args.context.competitor_prices)
        /\ args.context = [competitor_prices |-> <<100, 110, 90>>,
                           ml_prediction |-> 120] => ret.value = -20

\* C21 witness: our price 115 against a mean of 100 is exactly 15% above the
\* market and falls in the "> 10%" bracket
C21_Witness ==
    /\ op = "calculate_competition_factor"
    /\ ret # Pending
    /\ args.context = [competitor_prices |-> <<100, 110, 90>>, ml_prediction |-> 115]
    /\ ret.value = -15

\* the demand score of a context without its day-of-week bonus: 0.10 for the
\* weekend flag, 0.15 once for a summer or winter-holiday month, 0.10 for a
\* lead time of 7 to 21 days
DemandOtherBonuses(context) ==
      (IF context.is_weekend = 1 THEN 10 ELSE 0)
    + (IF context.flight_month \in {6, 7, 8} \/ context.flight_month \in {12, 1}
       THEN 15 ELSE 0)
    + (IF 7 <= context.days_until_flight /\ context.days_until_flight <= 21
       THEN 10 ELSE 0)

\* C22: calculate_demand_factor returns 0.10 for the weekend flag + 0.15, at
\* most once, for a month in {6,7,8} or {12,1} + the 0.10 day-of-week bonus
\* (never granted Monday to Thursday, always on Saturday) + 0.10 for a lead
\* time of 7 to 21 days, clipped to [-0.20, 0.50].
C22_DemandSum ==
    (op = "calculate_demand_factor" /\ ret # Pending /\ DOMAIN args.context # {}) =>
        /\ ret.raised = "none"
        /\ ret.value >= -20 /\ ret.value <= 50
        /\ ret.value - DemandOtherBonuses(args.context) \in {0, 10}
        /\ args.context.flight_weekday \in 0..3 =>
              ret.value = DemandOtherBonuses(args.context)
        /\ args.context.flight_weekday = 5 =>
              ret.value = DemandOtherBonuses(args.context) + 10

\* C22 witness: a Saturday in December, weekend flag set, 7 days ahead: the
\* four bonuses add up to 0.45, the month counted once
C22_Witness ==
    /\ op = "calculate_demand_factor"
    /\ ret # Pending
    /\ args.context = [is_weekend |-> 1, flight_month |-> 12, flight_weekday |-> 5,
                       days_until_flight |-> 7]
    /\ ret.value = 45

\* a call of parse_fare_code with a non-empty code has returned
ParsedCode ==
    /\ op = "parse_fare_code"
    /\ ret # Pending
    /\ args.fare_code # None
    /\ args.fare_code # <<>>

\* C23: for a non-empty fare code, seasonality_proxy is 1 whenever the
\* uppercased code contains "LH", whatever other H or L it holds; otherwise 2
\* if it contains "H", otherwise 0 if it contains "L", otherwise 1.
C23_SeasonalityLH ==
    ParsedCode =>
        ret.value.seasonality_proxy =
            IF      Contains(upper(args.fare_code), <<"L", "H">>) THEN 1
            ELSE IF Contains(upper(args.fare_code), <<"H">>)      THEN 2
            ELSE IF Contains(upper(args.fare_code), <<"L">>)      THEN 0
            ELSE 1

\* C23 witness: "HLH" holds an H outside its "LH" and is standard all the same
C23_Witness ==
    /\ ParsedCode
    /\ args.fare_code = <<"H", "L", "H">>
    /\ ret.value.seasonality_proxy = 1

\* C24: for a non-empty fare code, passenger_type is 1 (child) if the
\* uppercased code contains "CH", otherwise 2 (infant) if it contains "IN",
\* otherwise 0; a code with both "CH" and "IN" is a child's.
C24_PassengerType ==
    ParsedCode =>
        ret.value.passenger_type =
            IF      Contains(upper(args.fare_code), <<"C", "H">>) THEN 1
            ELSE IF Contains(upper(args.fare_code), <<"I", "N">>) THEN 2
            ELSE 0

\* C24 witness: "INCH" holds "IN" before "CH" and is classified as child
C24_Witness ==
    /\ ParsedCode
    /\ args.fare_code = <<"I", "N", "C", "H">>
    /\ ret.value.passenger_type = 1

\* a departure hour is supplied to the call of parse_fare_code
HourSupplied ==
    /\ args.flight_data # None
    /\ "departureHour" \in DOMAIN args.flight_data

\* C25: for a non-empty fare code, when the context supplies a departure hour
\* (hour 0 included) is_night_fare_proxy is 1 exactly when hour < 6 or
\* hour >= 22, whatever the letters of the code; without a departure hour it
\* is 1 exactly when the uppercased code contains "N".
C25_NightProxy ==
    ParsedCode =>
        ret.value.is_night_fare_proxy =
            IF HourSupplied
            THEN (IF args.flight_data["departureHour"] < 6
                     \/ args.flight_data["departureHour"] >= 22
                  THEN 1 ELSE 0)
            ELSE (IF Contains(upper(args.fare_code), <<"N">>) THEN 1 ELSE 0)

\* C25 witness: a departure at hour 0 with a code that has no "N" is a night
\* fare
C25_Witness ==
    /\ ParsedCode
    /\ HourSupplied
    /\ args.flight_data["departureHour"] = 0
    /\ ~Contains(upper(args.fare_code), <<"N">>)
    /\ ret.value.is_night_fare_proxy = 1

\* the days from the search date to the flight date of a flight_data
DaysBetween(flight_data) ==
    toordinal(strptime(flight_data["flightDate"]))
      - toordinal(strptime(flight_data["searchDate"]))

\* C26: with parseable dates create_ml_features does not raise, and
\* DAYS_UNTIL_FLIGHT is the number of days from the search date to the flight
\* date when that is not negative and 0 when the flight date is the earlier;
\* it is never negative.  From 2024-06-01: 14 days to 2024-06-15, 211 to
\* 2024-12-29, 0 to 2024-05-20.
C26_DaysClamped ==
    (op = "create_ml_features" /\ ret # Pending /\ DatesParse(args.flight_data)) =>
        /\ ret.raised = "none"
        /\ Item(ret.value, "DAYS_UNTIL_FLIGHT") >= 0
        /\ Item(ret.value, "DAYS_UNTIL_FLIGHT") =
              IF DaysBetween(args.flight_data) >= 0
              THEN DaysBetween(args.flight_data)
              ELSE 0
        /\ args.flight_data["searchDate"] = D_2024_06_01 =>
              /\ args.flight_data["flightDate"] = D_2024_06_15 =>
                    Item(ret.value, "DAYS_UNTIL_FLIGHT") = 14
              /\ args.flight_data["flightDate"] = D_2024_12_29 =>
                    Item(ret.value, "DAYS_UNTIL_FLIGHT") = 211
              /\ args.flight_data["flightDate"] = D_2024_05_20 =>
                    Item(ret.value, "DAYS_UNTIL_FLIGHT") = 0

\* C26 witness: a search on 2024-06-01 for a flight of 2024-05-20, 12 days
\* earlier, answered with a lead time of 0
C26_Witness ==
    /\ op = "create_ml_features"
    /\ ret.raised = "none"
    /\ args.flight_data["searchDate"] = D_2024_06_01
    /\ args.flight_data["flightDate"] = D_2024_05_20
    /\ DaysBetween(args.flight_data) = -12
    /\ Item(ret.value, "DAYS_UNTIL_FLIGHT") = 0

\* the points of the three checks other than the route: lead time, seats
\* remaining, base price (in tenths)
OtherPoints(features, base_price) ==
      (IF 7 <= Item(features, "DAYS_UNTIL_FLIGHT")
          /\ Item(features, "DAYS_UNTIL_FLIGHT") <= 60 THEN 2
       ELSE IF 3 <= Item(features, "DAYS_UNTIL_FLIGHT")
               /\ Item(features, "DAYS_UNTIL_FLIGHT") <= 90 THEN 1
       ELSE 0)
    + (IF 10 <= Item(features, "SEATS_REMAINING")
          /\ Item(features, "SEATS_REMAINING") <= 150 THEN 1 ELSE 0)
    + (IF 1000 <= base_price /\ base_price <= 15000 THEN 1 ELSE 0)

ConfidenceLabel(score) ==
    IF score >= 4 THEN "High" ELSE IF score >= 2 THEN "Medium" ELSE "Low"

\* the route of the features is one of the popular routes as listed
ListedRoute(features) ==
    RouteName(Item(features, "ORIGIN_CITY"), Item(features, "DEST_CITY"))
      \in popular_routes

\* the route is listed neither as it is, nor with origin and destination
\* swapped, nor spelled backwards
UnlistedRoute(features) ==
    /\ ~ListedRoute(features)
    /\ RouteName(Item(features, "DEST_CITY"), Item(features, "ORIGIN_CITY"))
         \notin popular_routes
    /\ Reverse(RouteName(Item(features, "ORIGIN_CITY"), Item(features, "DEST_CITY")))
         \notin popular_routes

\* C27: calculate_confidence returns High for a score >= 4, Medium for a
\* score >= 2 and Low otherwise, the score being 2 for a popular route + 2
\* for a lead time of 7 to 60 days, else 1 for 3 to 90 days + 1 for 10 to 150
\* seats remaining + 1 for a base price of 100 to 1500; the label is a
\* function of (features, base price) alone.
C27_ConfidenceScore ==
    (op = "calculate_confidence" /\ ret # Pending) =>
        /\ ret.raised = "none"
        /\ ret.value \in
              { ConfidenceLabel(OtherPoints(args.features, args.ml_prediction)),
                ConfidenceLabel(OtherPoints(args.features, args.ml_prediction) + 2) }
        /\ ListedRoute(args.features) =>
              ret.value =
                ConfidenceLabel(OtherPoints(args.features, args.ml_prediction) + 2)
        /\ UnlistedRoute(args.features) =>
              ret.value = ConfidenceLabel(OtherPoints(args.features, args.ml_prediction))

\* C27 witness: SFO-LAX 61 days ahead with 150 seats and a base price of
\* 150.0 scores 0 + 1 + 1 + 1 = 3 and is Medium
C27_Witness ==
    /\ op = "calculate_confidence"
    /\ ret # Pending
    /\ UnlistedRoute(args.features)
    /\ Item(args.features, "DAYS_UNTIL_FLIGHT") = 61
    /\ Item(args.features, "SEATS_REMAINING") = 150
    /\ args.ml_prediction = 15000
    /\ ret.value = "Medium"

\* base + the five per-factor contributions of a predict_price breakdown, in
\* 1/10000 of a tenth
BreakdownSum(breakdown) ==
      breakdown.base + breakdown.demand_adj + breakdown.competition_adj
    + breakdown.inventory_adj + breakdown.time_adj + breakdown.seasonality_adj

\* C28 (first part): with the default weights the weighted total adjustment
\* lies in [-0.125, +0.325], for every context calculate_dynamic_price is
\* given and in every predict_price call.
C28_TotalInRange ==
    /\ (DynamicPriceReturned /\ args.config = None) =>
          /\ WeightedSum(ret.value.adjustments, 30, 25, 20, 15, 10) >= -1250
          /\ WeightedSum(ret.value.adjustments, 30, 25, 20, 15, 10) <= 3250
    /\ (op = "predict_price" /\ ret.raised = "none") =>
          /\ WeightedSum(ret.value.factors, 30, 25, 20, 15, 10) >= -1250
          /\ WeightedSum(ret.value.factors, 30, 25, 20, 15, 10) <= 3250

\* C28 (second part): in predict_price the clip never changes the price.
C28_ClipIdle ==
    (op = "predict_price" /\ ret.raised = "none") =>
        ClipFormula(ret.value.ml_base_price,
                    WeightedSum(ret.value.factors, 30, 25, 20, 15, 10))
          = ret.value.ml_base_price
              * (10000 + WeightedSum(ret.value.factors, 30, 25, 20, 15, 10))

C29_CompetitionUsesBasePrice ==
    (op = "predict_price" /\ ret.raised = "none"
      /\ Truthy(args.market_data)
      /\ Get(args.market_data, "competitor_prices", <<>>) # <<>>) =>
        /\ ret.value.factors.competition
              = CompetitionBracket(ret.value.ml_base_price,
                                   args.market_data.competitor_prices)
        /\ market_data = SetItem(args.market_data, "ml_prediction",
                                 ret.value.ml_base_price)

\* market_data arrives with ml_prediction 77.7 and current_price 200.0 beside
\* the competitor price 105.0; the model returns 120.0 and the factor is the
\* -0.15 of 120.0 (77.7 would give +0.10, 200.0 would give -0.20)
C29_Witness ==
    /\ op = "predict_price" /\ ret.raised = "none"
    /\ args.market_data = [competitor_prices |-> <<1050>>, total_seats |-> 180,
                           current_price |-> 2000, ml_prediction |-> 777]
    /\ ret.value.ml_base_price = 1200
    /\ ret.value.factors.competition = -15
    /\ CompetitionBracket(777, <<1050>>) = 10
    /\ CompetitionBracket(2000, <<1050>>) = -20
    /\ market_data.ml_prediction = 1200
    /\ market_data.current_price = 2000

\* C30: in every feature vector create_ml_features builds from a non-empty
\* fare code, is_weekend_fare_proxy equals IS_WEEKEND, whether or not the
\* code contains "WE" or "WK"; with an empty (or absent) fare code
\* is_weekend_fare_proxy is 0, even when IS_WEEKEND is 1.
C30_WeekendProxyIsWeekend ==
    (op = "create_ml_features" /\ ret.raised = "none") =>
        IF Get(args.flight_data, "fareBasisCode", <<>>) = <<>>
        THEN Item(ret.value, "is_weekend_fare_proxy") = 0
        ELSE Item(ret.value, "is_weekend_fare_proxy") = Item(ret.value, "IS_WEEKEND")

\* fare code "KWE" on Monday 2024-06-03: the code says weekend, the date and
\* both features say it is not
C30_Witness ==
    /\ op = "create_ml_features" /\ ret.raised = "none"
    /\ Get(args.flight_data, "fareBasisCode", <<>>) = KWE
    /\ code_is_weekend(KWE) = 1
    /\ args.flight_data["flightDate"] = D_2024_06_03
    /\ Item(ret.value, "IS_WEEKEND") = 0
    /\ Item(ret.value, "is_weekend_fare_proxy") = 0

====
